---- MODULE Spec2Model ----
(***************************************************************************)
(* Strategy Execution & Risk Engine of the trading terminal.               *)
(*                                                                         *)
(*   Spec      EAManager (core/ea_manager.py) driving ExpertAdvisor        *)
(*             objects (core/ea_base.py) and the SymbolNormalizer.         *)
(*   SpecEA    one ExpertAdvisor driven directly: lifecycle, the trading   *)
(*             gate _can_trade, order updates, the wall clock.             *)
(*   SpecExec  ExecutionService (core/execution_service.py) against a      *)
(*             broker collaborator whose calls succeed, fail or raise.     *)
(*                                                                         *)
(* Units: prices are integers in pips (0.0001), volumes in hundredths of a *)
(* lot, money in cents, so that Order.calculate_profit                     *)
(*   round(price_diff * 10000 * pip_value * volume, 2)                     *)
(* is the exact integer  pips * PipValue * volume  (cents).                *)
(***************************************************************************)
EXTENDS Integers, Sequences, FiniteSets, TLC

\* ------------------------------------------------------------------ bounds
MaxTrades == 2          \* closed trades counted per strategy before the model stops closing
MaxDay == 1             \* calendar days the clock may advance
MaxClockMs == 2         \* milliseconds the execution clock may advance
MaxHour == 2            \* hours of a day the clock may advance through
MaxClosed == 2          \* positions the tracker closes before the model stops closing
MaxTicks == 5           \* ticks handed to the feed
MaxArrivals == 3        \* ticks handed to the feed when they arrive minutes to days apart
MaxSwing == 15          \* the day's profit or loss the risk run stays within
StartMinute == 59       \* the clock when the feed starts, in minutes since midnight
MaxMinute == 60         \* the minute the feed's clock may advance to
MaxBars == 4            \* bars the breakout strategy is handed between two starts

\* ------------------------------------------------------- program constants
DefaultMaxConcurrentEAs == 5
MaxRetries == 3
ReferenceEquity == 10000      \* dollars, the "$10k account" of _can_trade
PipValue == 10                \* dollars per pip per lot
RetainedCandles == 1000       \* candles FeedManager keeps per symbol
DefaultCount == 200           \* get_candles: count when the caller gives none
DefaultBalance == 10000       \* RiskManager: account balance when none is given
MaxRiskPerTrade == 2          \* RiskManager.max_risk_per_trade, percent
MaxDailyLossPercent == 5      \* RiskManager.max_daily_loss, percent of the balance

\* Python's None: "None" among strings; an Optional of any other type is the
\* empty tuple Nil or the one-element tuple Some(x)
None == "None"
Nil == <<>>
Some(x) == <<x>>
Get(o) == o[1]

\* Strategy names.  One is a textual prefix of another, as "MA" is of "MA2".
EANames == { <<"M">>, <<"M", "2">>, <<"B">> }
GateEA == <<"M">>

ColonX == "NSE:X"
ColonY == "NSE:Y"
PipeX == "NSE|1"
Symbols == {ColonX, ColonY, PipeX}

Statuses == {"stopped", "running", "paused", "error"}

VARIABLES
    eas,              \* EAManager.eas: the registered names (keys of the dict)
    running_eas,      \* EAManager.running_eas: list of names
    max_concurrent_eas,
    ea,               \* the ExpertAdvisor objects, by name
    colon_to_pipe,    \* SymbolNormalizer._colon_to_pipe
    pipe_to_colon,    \* SymbolNormalizer._pipe_to_colon
    now,              \* wall clock: [day, hour]
    last,             \* what the last EAManager / ExpertAdvisor call did
    broker,           \* ExecutionService.broker is set
    paper_trading,    \* ExecutionService.paper_trading
    now_ms,           \* clock read by _generate_ticket
    xlast,            \* what the last ExecutionService call did
    open_positions,   \* PositionTracker.open_positions: the orders, in insertion order
    closed_positions, \* PositionTracker.closed_positions: list of orders
    trailing_stops,   \* PositionTracker.trailing_stops: the records, in insertion order
    current_prices,   \* PositionTracker.current_prices: symbol -> latest price (Nil: no key)
    tlast,            \* what the last PositionTracker call did
    tick_requested,   \* tickets a close was requested for by the tick path
    applied_sl,       \* ticket -> the stop-loss last published for it (Nil: none yet)
    current_candles,  \* CandleBuilder.current_candles: symbol -> timeframe -> candle
    last_candle_time, \* CandleBuilder.last_candle_time: symbol -> timeframe -> time
    fm_symbols,       \* FeedManager._symbols: symbol -> the latest quote
    fm_candles,       \* FeedManager._candles: symbol -> list of candles
    now_min,          \* clock read by process_tick, in minutes
    flast,            \* what the last FeedManager call did
    ticks_fed,        \* ticks handed to update_tick so far
    bucket_ticks,     \* symbol -> timeframe -> the prices of the ticks of the current bucket
    sealed_times,     \* symbol -> timeframe -> the bucket starts of the candles closed so far
    stored_ever,      \* symbol -> every candle handed to FeedManager for storing, none dropped
    account_balance,  \* RiskManager.account_balance
    account_equity,   \* RiskManager.account_equity
    daily_loss,       \* RiskManager.daily_loss: the day's profit so far, negative for a loss
    rlast,            \* what the last RiskManager call did
    counted,          \* ticket -> the closes of it the strategy driven directly has counted
    candles_buffer,   \* BullishBreakoutEA.candles_buffer: list of candles
    last_signal_time, \* BullishBreakoutEA.last_signal_time (Nil: None)
    signals,          \* candle timestamps generate_signal was called for since the last start
    bar_tf,           \* timeframe of the candle candle_updated last carried (None: none yet)
    broker_orders     \* DummyBroker._open_orders: list of orders

mgrVars == <<eas, running_eas, max_concurrent_eas, colon_to_pipe, pipe_to_colon>>
eaVars == <<ea, now, last, counted>>
execVars == <<broker, paper_trading, now_ms, xlast>>
trackerVars == <<open_positions, closed_positions, trailing_stops, current_prices,
                 tlast, tick_requested, applied_sl>>
feedVars == <<current_candles, last_candle_time, fm_symbols, fm_candles, now_min, flast,
              ticks_fed, bucket_ticks, sealed_times, stored_ever>>
riskVars == <<account_balance, account_equity, daily_loss, rlast>>
stratVars == <<candles_buffer, last_signal_time, signals>>
brokerVars == <<broker_orders>>
wireVars == <<bar_tf>>
vars == <<eas, running_eas, max_concurrent_eas, ea, colon_to_pipe,
          pipe_to_colon, now, last, counted, broker, paper_trading, now_ms, xlast, trackerVars,
          feedVars, riskVars, stratVars, brokerVars, wireVars>>

\* ------------------------------------------------------------ small helpers
Max(a, b) == IF a >= b THEN a ELSE b

Abs(a) == IF a < 0 THEN -a ELSE a

\* str.startswith
StartsWith(s, p) == Len(p) <= Len(s) /\ SubSeq(s, 1, Len(p)) = p

\* x in list
InList(x, l) == \E i \in 1..Len(l) : l[i] = x

\* list.remove(x): drops the first occurrence
RECURSIVE ListRemove(_, _)
ListRemove(l, x) ==
    IF l = <<>> THEN <<>>
    ELSE IF Head(l) = x THEN Tail(l)
    ELSE <<Head(l)>> \o ListRemove(Tail(l), x)

\* dict.get(key) on a dict held as a function over Symbols with None for "absent"
DictGet(d, k) == IF k \in DOMAIN d THEN d[k] ELSE None

\* ------------------------------------------------------- data/models.py
\* Order.calculate_profit(current_price), in cents
calculate_profit(order, current_price) ==
    LET price_diff == IF order.status = "closed" /\ order.close_price # Nil /\ Get(order.close_price) # 0
                      THEN Get(order.close_price) - order.open_price
                      ELSE current_price - order.open_price
        signed == IF order.order_type = "sell" THEN -price_diff ELSE price_diff
    IN signed * PipValue * order.volume

\* ------------------------------------------------- utils/symbol_normalizer.py
\* SymbolNormalizer.match(symbol1, symbol2)
match(c2p, p2c, symbol1, symbol2) ==
    \/ symbol1 = symbol2
    \/ DictGet(c2p, symbol1) = symbol2
    \/ DictGet(p2c, symbol1) = symbol2

\* ------------------------------------------------------- core/ea_base.py
\* ExpertAdvisor.__init__
NewEA ==
    [config |-> Nil, is_running |-> FALSE, is_paused |-> FALSE, status |-> "stopped",
     started_day |-> Nil, trades_today |-> 0, daily_profit |-> 0, open_tickets |-> <<>>,
     total_trades |-> 0, winning_trades |-> 0, profit |-> 0, open_positions |-> 0]

\* What a call on a strategy did: the object after it, the number of
\* error_occurred emissions, whether the strategy-specific handler was entered
\* and whether an exception left the call.
Ret(e, errs, invoked, raised) == [e |-> e, errs |-> errs, invoked |-> invoked, raised |-> raised]

\* ExpertAdvisor.initialize(config); on_init is taken not to raise
EA_initialize(e, config) == [e EXCEPT !.config = Some(config)]

\* ExpertAdvisor.pause
EA_pause(e) ==
    IF ~e.is_running \/ e.is_paused THEN e
    ELSE [e EXCEPT !.is_paused = TRUE, !.status = "paused"]

\* ExpertAdvisor.resume
EA_resume(e) ==
    IF ~e.is_running \/ ~e.is_paused THEN e
    ELSE [e EXCEPT !.is_paused = FALSE, !.status = "running"]

\* ExpertAdvisor.emit_error: status "error", one error_occurred, pause if running.
\* A wired manager slot (_on_ea_error) pauses the same object while the signal
\* is being delivered; the pause that follows is then a no-op.
EA_emit_error(e) ==
    LET e1 == [e EXCEPT !.status = "error"]
    IN IF e1.is_running THEN EA_pause(e1) ELSE e1

\* ExpertAdvisor._check_new_trading_day
EA_check_new_trading_day(e, today) ==
    IF e.started_day # Nil /\ today > Get(e.started_day)
    THEN [e EXCEPT !.trades_today = 0, !.daily_profit = 0, !.started_day = Some(today)]
    ELSE e

\* ExpertAdvisor.start; hook_raises: on_start raises
EA_start(e, today, hook_raises) ==
    IF e.config = Nil THEN Ret(EA_emit_error(e), 1, FALSE, FALSE)
    ELSE IF e.is_running THEN Ret(e, 0, FALSE, FALSE)
    ELSE LET e1 == [e EXCEPT !.is_running = TRUE, !.is_paused = FALSE,
                             !.status = "running", !.started_day = Some(today)]
             e2 == EA_check_new_trading_day(e1, today)
         IN Ret(e2, 0, FALSE, hook_raises)

\* ExpertAdvisor.stop; hook_raises: on_stop raises
EA_stop(e, hook_raises) ==
    IF ~e.is_running THEN Ret(e, 0, FALSE, FALSE)
    ELSE Ret([e EXCEPT !.is_running = FALSE, !.is_paused = FALSE, !.status = "stopped"],
             0, FALSE, hook_raises)

\* the cutoff with > for >=: a loss of exactly the limit still trades
DailyLossReached_Mut(daily_profit, max_daily_loss) ==
    daily_profit < 0 /\ Abs(daily_profit) > max_daily_loss * ReferenceEquity

\* loss_percent >= max_daily_loss with loss_percent = abs(daily_profit / 10000) * 100;
\* daily_profit is in cents here, so loss_percent = |daily_profit| / ReferenceEquity
DailyLossReached(daily_profit, max_daily_loss) ==
    daily_profit < 0 /\ Abs(daily_profit) >= max_daily_loss * ReferenceEquity

\* the time filter test of _can_trade
InTradingHours(config, hour) ==
    config.trading_start_hour <= hour /\ hour < config.trading_end_hour

\* the open-position test of _can_trade
PositionsFull(e) == Len(e.open_tickets) >= Get(e.config).max_concurrent_positions

\* ExpertAdvisor._can_trade: [ok, e, errs]
EA_can_trade(e, hour) ==
    IF ~e.is_running \/ e.is_paused THEN [ok |-> FALSE, e |-> e, errs |-> 0]
    ELSE IF e.config = Nil THEN [ok |-> FALSE, e |-> e, errs |-> 0]
    ELSE IF Get(e.config).enable_time_filter /\ ~InTradingHours(Get(e.config), hour)
         THEN [ok |-> FALSE, e |-> e, errs |-> 0]
    ELSE IF DailyLossReached(e.daily_profit, Get(e.config).max_daily_loss)
         THEN [ok |-> FALSE, e |-> EA_emit_error(e), errs |-> 1]
    ELSE IF PositionsFull(e) THEN [ok |-> FALSE, e |-> e, errs |-> 0]
    ELSE [ok |-> TRUE, e |-> e, errs |-> 0]

\* ExpertAdvisor.on_tick; handler_raises: handle_tick raises
EA_on_tick(e, clock, handler_raises) ==
    LET g == EA_can_trade(e, clock.hour)
    IN IF ~g.ok THEN Ret(g.e, g.errs, FALSE, FALSE)
       ELSE Ret(g.e, 0, TRUE, handler_raises)

\* ExpertAdvisor.on_bar; handler_raises: handle_bar raises
EA_on_bar(e, clock, handler_raises) ==
    LET g == EA_can_trade(e, clock.hour)
    IN IF ~g.ok THEN Ret(g.e, g.errs, FALSE, FALSE)
       ELSE Ret(EA_check_new_trading_day(g.e, clock.day), 0, TRUE, handler_raises)

\* ExpertAdvisor.on_order_update; handler_raises: handle_order_update raises
EA_on_order_update(e, order, handler_raises) ==
    LET e1 == IF order.status = "closed"
              THEN IF InList(order.ticket, e.open_tickets)
                   THEN LET p == calculate_profit(order,
                                     IF order.close_price = Nil THEN 0 ELSE Get(order.close_price))
                        IN [e EXCEPT !.open_tickets = ListRemove(@, order.ticket),
                                     !.total_trades = @ + 1,
                                     !.profit = @ + p,
                                     !.daily_profit = @ + p,
                                     !.trades_today = @ + 1,
                                     !.winning_trades = IF p > 0 THEN @ + 1 ELSE @]
                   ELSE e
              ELSE IF order.status = "active"
                   THEN IF ~InList(order.ticket, e.open_tickets)
                        THEN [e EXCEPT !.open_tickets = Append(@, order.ticket)]
                        ELSE e
                   ELSE e
        e2 == [e1 EXCEPT !.open_positions = Len(e1.open_tickets)]
    IN Ret(e2, 0, TRUE, handler_raises)

\* ------------------------------------------------------ core/ea_manager.py
\* the record kept of the last call: the strategies the event was delivered to
\* (in order), those whose handle_* was entered, those whose handle_* raised,
\* the names ea_error was emitted for, and the exception that left the call
Did(op, name, result) ==
    [op |-> op, name |-> name, result |-> result, symbol |-> None, delivered |-> <<>>,
     invoked |-> {}, raised |-> {}, ea_errors |-> {}, escaped |-> "none"]

\* the limit test with > for >=: one strategy too many gets in
CapReached_Mut(running, cap) == Len(running) > cap

\* the concurrent-EA limit test of start_ea
CapReached(running, cap) == Len(running) >= cap

\* EAManager._on_ea_error, after its ea_error.emit: auto-pause on error
EAM_on_ea_error(eaf, registered, n) ==
    IF n \in registered /\ eaf[n].is_running /\ ~eaf[n].is_paused
    THEN [eaf EXCEPT ![n] = EA_pause(@)]
    ELSE eaf

\* the names for which ea_error is emitted when strategy n emits error_occurred
\* errs times: the lambda wired by register_ea calls _on_ea_error(n, msg).  The
\* manager reaches a strategy only while it is registered, hence wired.
ErrorsRelayed(n, errs, wired) == IF errs > 0 /\ n \in wired THEN {n} ELSE {}

\* what the except clause of a routing method does with a handler exception:
\* on_tick and on_bar call _on_ea_error, on_order_update only logs
HandlerErrorReported(kind) == kind \in {"tick", "bar"}

\* the test that decides whether the event goes to strategy n (object e)
Routed(kind, n, e, payload, c2p, p2c) ==
    IF kind = "order"
    THEN \/ StartsWith(payload.comment, n)
         \/ (e.config # Nil /\ Get(e.config).symbol = payload.symbol)
    ELSE e.config # Nil /\ match(c2p, p2c, Get(e.config).symbol, payload)

\* the call made on the strategy
Deliver(kind, e, payload, clock, handler_raises) ==
    IF kind = "tick" THEN EA_on_tick(e, clock, handler_raises)
    ELSE IF kind = "bar" THEN EA_on_bar(e, clock, handler_raises)
    ELSE EA_on_order_update(e, payload, handler_raises)

\* the loop "for ea_name in self.running_eas" of on_tick / on_bar / on_order_update
\* over the names still to visit; self.eas[ea_name] raises KeyError for a name
\* that is not registered, which ends the call
RECURSIVE RouteLoop(_, _, _, _, _, _, _, _, _, _)
RouteLoop(todo, acc, kind, payload, raisers, registered, wired, c2p, p2c, clock) ==
    IF todo = <<>> THEN acc
    ELSE LET n == Head(todo) IN
         IF n \notin registered THEN [acc EXCEPT !.escaped = "KeyError"]
         ELSE IF ~Routed(kind, n, acc.ea[n], payload, c2p, p2c)
         THEN RouteLoop(Tail(todo), acc, kind, payload, raisers, registered, wired, c2p, p2c, clock)
         ELSE LET r == Deliver(kind, acc.ea[n], payload, clock, n \in raisers)
                  eaf1 == [acc.ea EXCEPT ![n] = r.e]
                  reported == r.raised /\ HandlerErrorReported(kind)
                  acc1 == [ea |-> IF reported THEN EAM_on_ea_error(eaf1, registered, n) ELSE eaf1,
                           delivered |-> Append(acc.delivered, n),
                           invoked |-> IF r.invoked THEN acc.invoked \cup {n} ELSE acc.invoked,
                           raised |-> IF r.raised THEN acc.raised \cup {n} ELSE acc.raised,
                           ea_errors |-> acc.ea_errors \cup ErrorsRelayed(n, r.errs, wired)
                                            \cup (IF reported THEN {n} ELSE {}),
                           escaped |-> "none"]
              IN RouteLoop(Tail(todo), acc1, kind, payload, raisers, registered, wired, c2p, p2c, clock)

\* tf: the timeframe of the candle candle_updated carries, noted on the way
RouteWith(kind, payload, raisers, tf) ==
    LET acc == RouteLoop(running_eas,
                         [ea |-> ea, delivered |-> <<>>, invoked |-> {}, raised |-> {},
                          ea_errors |-> {}, escaped |-> "none"],
                         kind, payload, raisers, eas, eas, colon_to_pipe, pipe_to_colon, now)
    IN /\ ea' = acc.ea
       /\ last' = [op |-> kind, name |-> IF kind = "order" THEN payload.comment ELSE <<>>,
                   result |-> TRUE,
                   symbol |-> IF kind = "order" THEN payload.symbol ELSE payload,
                   delivered |-> acc.delivered,
                   invoked |-> acc.invoked, raised |-> acc.raised, ea_errors |-> acc.ea_errors,
                   escaped |-> acc.escaped]
       /\ bar_tf' = tf
       /\ UNCHANGED <<mgrVars, now, counted, execVars, trackerVars, feedVars, riskVars, stratVars, brokerVars>>

Route(kind, payload, raisers) == RouteWith(kind, payload, raisers, bar_tf)

\* EAManager.on_tick(symbol)
EAM_on_tick(symbol, raisers) == Route("tick", symbol, raisers)

\* EAManager.on_bar(symbol, bar)
EAM_on_bar(symbol, raisers) == Route("bar", symbol, raisers)

\* EAManager.on_order_update(order)
EAM_on_order_update(order, raisers) == Route("order", order, raisers)

\* CandleBuilder._emit_candle_close(symbol, candle) for the candle of timeframe
\* tf that process_tick closes: candle_updated carries (symbol, candle), and the
\* slot wired by ConnectionManager.connect_broker calls ea_manager.on_bar(symbol, bar)
CB_emit_candle_close(symbol, tf, raisers) == RouteWith("bar", symbol, raisers, tf)

\* the body of stop_ea as a function of the manager's state:
\* [ok, ea, running, ea_errors]
StopEA(eaf, running, registered, wired, n, hook_raises) ==
    IF n \notin registered \/ ~InList(n, running)
    THEN [ok |-> FALSE, ea |-> eaf, running |-> running, ea_errors |-> {}]
    ELSE LET r == EA_stop(eaf[n], hook_raises)
             relayed == ErrorsRelayed(n, r.errs, wired)
         IN IF r.raised
            THEN [ok |-> FALSE, ea |-> [eaf EXCEPT ![n] = r.e], running |-> running,
                  ea_errors |-> relayed]
            ELSE [ok |-> TRUE, ea |-> [eaf EXCEPT ![n] = r.e],
                  running |-> ListRemove(running, n), ea_errors |-> relayed]

\* EAManager.register_ea(ea)
EAM_register_ea(n) ==
    /\ IF n \in eas
       THEN /\ last' = Did("register", n, FALSE)
            /\ UNCHANGED eas
       ELSE /\ eas' = eas \cup {n}
            /\ last' = Did("register", n, TRUE)
    /\ UNCHANGED <<running_eas, max_concurrent_eas, colon_to_pipe, pipe_to_colon, ea, now, counted, execVars, trackerVars, feedVars, riskVars, stratVars, brokerVars, wireVars>>

\* EAManager.unregister_ea(ea_name); hook_raises: the strategy's on_stop raises
EAM_unregister_ea(n, hook_raises) ==
    /\ IF n \notin eas
       THEN /\ last' = Did("unregister", n, FALSE)
            /\ UNCHANGED <<eas, running_eas, ea>>
       ELSE LET st == IF InList(n, running_eas)
                      THEN StopEA(ea, running_eas, eas, eas, n, hook_raises)
                      ELSE [ok |-> FALSE, ea |-> ea, running |-> running_eas, ea_errors |-> {}]
            IN /\ eas' = eas \ {n}
               /\ running_eas' = st.running
               /\ ea' = st.ea
               /\ last' = [Did("unregister", n, TRUE) EXCEPT !.ea_errors = st.ea_errors]
    /\ UNCHANGED <<max_concurrent_eas, colon_to_pipe, pipe_to_colon, now, counted, execVars, trackerVars, feedVars, riskVars, stratVars, brokerVars, wireVars>>

\* EAManager.start_ea(ea_name); hook_raises: the strategy's on_start raises
EAM_start_ea(n, hook_raises) ==
    /\ IF n \notin eas \/ InList(n, running_eas) \/ CapReached(running_eas, max_concurrent_eas)
       THEN /\ last' = Did("start", n, FALSE)
            /\ UNCHANGED <<running_eas, ea>>
       ELSE LET r == EA_start(ea[n], now.day, hook_raises)
            IN /\ ea' = [ea EXCEPT ![n] = r.e]
               /\ running_eas' = IF r.raised THEN running_eas ELSE Append(running_eas, n)
               /\ last' = [Did("start", n, ~r.raised)
                             EXCEPT !.ea_errors = ErrorsRelayed(n, r.errs, eas)]
    /\ UNCHANGED <<eas, max_concurrent_eas, colon_to_pipe, pipe_to_colon, now, counted, execVars, trackerVars, feedVars, riskVars, stratVars, brokerVars, wireVars>>

\* EAManager.stop_ea(ea_name); hook_raises: the strategy's on_stop raises
EAM_stop_ea(n, hook_raises) ==
    LET st == StopEA(ea, running_eas, eas, eas, n, hook_raises)
    IN /\ ea' = st.ea
       /\ running_eas' = st.running
       /\ last' = [Did("stop", n, st.ok) EXCEPT !.ea_errors = st.ea_errors]
       /\ UNCHANGED <<eas, max_concurrent_eas, colon_to_pipe, pipe_to_colon, now, counted, execVars, trackerVars, feedVars, riskVars, stratVars, brokerVars, wireVars>>

\* EAManager.pause_ea(ea_name)
EAM_pause_ea(n) ==
    /\ IF n \notin eas
       THEN /\ last' = Did("pause", n, FALSE)
            /\ UNCHANGED ea
       ELSE /\ ea' = [ea EXCEPT ![n] = EA_pause(@)]
            /\ last' = Did("pause", n, TRUE)
    /\ UNCHANGED <<mgrVars, now, counted, execVars, trackerVars, feedVars, riskVars, stratVars, brokerVars, wireVars>>

\* EAManager.resume_ea(ea_name)
EAM_resume_ea(n) ==
    /\ IF n \notin eas
       THEN /\ last' = Did("resume", n, FALSE)
            /\ UNCHANGED ea
       ELSE /\ ea' = [ea EXCEPT ![n] = EA_resume(@)]
            /\ last' = Did("resume", n, TRUE)
    /\ UNCHANGED <<mgrVars, now, counted, execVars, trackerVars, feedVars, riskVars, stratVars, brokerVars, wireVars>>

\* the loop of stop_all over list(self.running_eas)
RECURSIVE StopAllLoop(_, _, _, _, _)
StopAllLoop(todo, acc, registered, wired, raisers) ==
    IF todo = <<>> THEN acc
    ELSE LET st == StopEA(acc.ea, acc.running, registered, wired, Head(todo), Head(todo) \in raisers)
         IN StopAllLoop(Tail(todo), [ea |-> st.ea, running |-> st.running],
                        registered, wired, raisers)

\* EAManager.stop_all(); raisers: the strategies whose on_stop raises
EAM_stop_all(raisers) ==
    LET acc == StopAllLoop(running_eas, [ea |-> ea, running |-> running_eas], eas, eas, raisers)
    IN /\ ea' = acc.ea
       /\ running_eas' = acc.running
       /\ last' = Did("stop_all", <<>>, TRUE)
       /\ UNCHANGED <<eas, max_concurrent_eas, colon_to_pipe, pipe_to_colon, now, counted, execVars, trackerVars, feedVars, riskVars, stratVars, brokerVars, wireVars>>

\* EAManager.set_max_concurrent_eas(limit)
EAM_set_max_concurrent_eas(limit) ==
    /\ max_concurrent_eas' = Max(1, limit)
    /\ last' = Did("set_max", <<>>, TRUE)
    /\ UNCHANGED <<eas, running_eas, colon_to_pipe, pipe_to_colon, ea, now, counted, execVars, trackerVars, feedVars, riskVars, stratVars, brokerVars, wireVars>>

\* ExpertAdvisor.initialize(config) called on strategy n by its owner
Initialize(n, config) ==
    /\ ea' = [ea EXCEPT ![n] = EA_initialize(@, config)]
    /\ last' = Did("initialize", n, TRUE)
    /\ UNCHANGED <<mgrVars, now, counted, execVars, trackerVars, feedVars, riskVars, stratVars, brokerVars, wireVars>>

\* -------------------------------------------- the strategy driven directly
\* the closes counted per ticket after a call that took the strategy from one
\* state to the next: a call that raises total_trades took one ticket out of
\* open_tickets
CountedAfter(tally, before, after) ==
    IF after.total_trades > before.total_trades
    THEN LET gone == CHOOSE t \in DOMAIN tally :
                        InList(t, before.open_tickets) /\ ~InList(t, after.open_tickets)
         IN [tally EXCEPT ![gone] = @ + 1]
    ELSE tally

\* a call on the strategy GateEA made by its owner, outside the manager; tally is
\* the closes counted per ticket after it
DirectWith(op, r, tally) ==
    /\ ea' = [ea EXCEPT ![GateEA] = r.e]
    /\ last' = [Did(op, GateEA, ~r.raised)
                  EXCEPT !.invoked = IF r.invoked THEN {GateEA} ELSE {},
                         !.raised = IF r.raised /\ r.invoked THEN {GateEA} ELSE {},
                         !.escaped = IF ~r.raised THEN "none"
                                     ELSE IF r.invoked THEN "handler" ELSE "hook"]
    /\ counted' = tally
    /\ UNCHANGED <<mgrVars, now, execVars, trackerVars, feedVars, riskVars, stratVars, brokerVars, wireVars>>

\* the same with the tally of counted closes left alone
Direct(op, r) == DirectWith(op, r, counted)

EAD_start(hook_raises) == Direct("ea_start", EA_start(ea[GateEA], now.day, hook_raises))

EAD_stop(hook_raises) == Direct("ea_stop", EA_stop(ea[GateEA], hook_raises))

EAD_pause == Direct("ea_pause", Ret(EA_pause(ea[GateEA]), 0, FALSE, FALSE))

EAD_resume == Direct("ea_resume", Ret(EA_resume(ea[GateEA]), 0, FALSE, FALSE))

EAD_on_tick(handler_raises) == Direct("ea_on_tick", EA_on_tick(ea[GateEA], now, handler_raises))

EAD_on_bar(handler_raises) == Direct("ea_on_bar", EA_on_bar(ea[GateEA], now, handler_raises))

EAD_on_order_update(order, handler_raises) ==
    /\ order.status = "closed" => ea[GateEA].total_trades < MaxTrades
    /\ Direct("ea_on_order_update", EA_on_order_update(ea[GateEA], order, handler_raises))

\* on_order_update with the closes it counts tallied per ticket
EAT_on_order_update(order, handler_raises) ==
    LET r == EA_on_order_update(ea[GateEA], order, handler_raises)
    IN /\ order.status = "closed" => ea[GateEA].total_trades < MaxTrades
       /\ DirectWith("ea_on_order_update", r, CountedAfter(counted, ea[GateEA], r.e))

\* datetime.now() moves on within the day
HourPasses ==
    /\ now.hour < MaxHour
    /\ now' = [now EXCEPT !.hour = @ + 1]
    /\ last' = Did("clock", <<>>, TRUE)
    /\ UNCHANGED <<mgrVars, ea, counted, execVars, trackerVars, feedVars, riskVars, stratVars, brokerVars, wireVars>>

\* datetime.now() passes midnight
DayPasses ==
    /\ now.day < MaxDay
    /\ now' = [day |-> now.day + 1, hour |-> 0]
    /\ last' = Did("clock", <<>>, TRUE)
    /\ UNCHANGED <<mgrVars, ea, counted, execVars, trackerVars, feedVars, riskVars, stratVars, brokerVars, wireVars>>

\* ------------------------------------------------------------------ inputs
Config(symbol, filter, loss, positions) ==
    [symbol |-> symbol, enable_time_filter |-> filter, trading_start_hour |-> 1,
     trading_end_hour |-> 2, max_daily_loss |-> loss, max_concurrent_positions |-> positions,
     timeframe |-> "M5"]

MgrConfig(sy) == Config(sy, FALSE, 5, 1)

\* the strategies the manager is handed: two built and initialized by their
\* factory functions (create_*: construct, then initialize(config)), one bare
Factory == [n \in EANames |->
              IF n = <<"M">> THEN EA_initialize(NewEA, MgrConfig(ColonX))
              ELSE IF n = <<"B">> THEN EA_initialize(NewEA, MgrConfig(ColonY))
              ELSE NewEA]

\* the strategy whose handle_tick / handle_bar / handle_order_update may raise
\* (FixedPriceTriggerEA.handle_tick calls the bool is_running), and the one
\* whose on_start / on_stop hooks may raise
Faulty == <<"M">>
FaultyHook == <<"B">>
HandlerFaults == {{}, {Faulty}}
HookFaults(n) == IF n = FaultyHook THEN BOOLEAN ELSE {FALSE}

GateConfigs == { Config(ColonX, f, l, 2) : f \in BOOLEAN, l \in {1, 2} }

\* Order.comment as ExecutionService._signal_to_order writes it: "<ea_name> - <reason>"
CommentOf(ea_name) == ea_name \o <<" ", "-", " ">>

AnOrder(ticket, status, symbol, comment, side, close_price) ==
    [ticket |-> ticket, status |-> status, symbol |-> symbol, comment |-> comment,
     order_type |-> side, volume |-> 100, open_price |-> 100, close_price |-> close_price]

MgrOrders == { AnOrder(1, "filled", ColonX, c, "buy", Nil) : c \in {<<>>, CommentOf(<<"M", "2">>)} }

GateOrders ==
    { AnOrder(t, "active", ColonX, <<>>, "buy", Nil) : t \in {1, 2} }
    \cup { AnOrder(t, "closed", ColonX, <<>>, "buy", Some(90)) : t \in {1, 2} }
    \cup { AnOrder(1, "closed", ColonX, <<>>, "buy", Some(110)),
           AnOrder(1, "filled", ColonX, <<>>, "buy", Nil) }

EventSymbols == {PipeX, ColonY}

\* ------------------------------------------------ core/execution_service.py
SignalTypes == {"BUY", "SELL", "CLOSE_BUY", "CLOSE_SELL"}

\* the validation with volume < 0 for volume <= 0: a zero volume passes
ValidationRejections_Mut(signal) ==
    IF signal.signal_type \notin {"BUY", "SELL", "CLOSE_BUY", "CLOSE_SELL"}
    THEN <<"Invalid signal type">>
    ELSE IF signal.symbol = "" THEN <<"No symbol specified">>
    ELSE IF signal.volume < 0 THEN <<"Invalid volume">>
    ELSE IF signal.price <= 0 THEN <<"Invalid price">>
    ELSE <<>>

\* ExecutionService._validate_signal: the reasons of the rejections it emits
\* (empty when the signal is valid); the first failing check returns
ValidationRejections(signal) ==
    IF signal.signal_type \notin SignalTypes THEN <<"Invalid signal type">>
    ELSE IF signal.symbol = "" THEN <<"No symbol specified">>
    ELSE IF signal.volume <= 0 THEN <<"Invalid volume">>
    ELSE IF signal.price <= 0 THEN <<"Invalid price">>
    ELSE <<>>

\* ExecutionService._generate_ticket
ES_generate_ticket(clock_ms) == clock_ms

\* ExecutionService._signal_to_order
ES_signal_to_order(signal, clock_ms) ==
    [ticket |-> ES_generate_ticket(clock_ms),
     symbol |-> signal.symbol,
     order_type |-> IF signal.signal_type \in {"SELL", "CLOSE_BUY"} THEN "sell" ELSE "buy",
     volume |-> signal.volume,
     open_price |-> signal.price,
     sl |-> signal.stop_loss,
     tp |-> signal.take_profit,
     comment |-> CommentOf(signal.ea_name),
     status |-> "pending"]

\* the Order a broker's place_order hands back on attempt k: its own object,
\* active, under a ticket of the broker's numbering
BrokerOrder(order, k) == [order EXCEPT !.ticket = 1000 + k, !.status = "active"]

\* the retry loop one attempt short
RetryAgain_Mut(k, max_retries) == k < max_retries - 1

\* whether the retry loop goes on to another attempt after attempt k
RetryAgain(k, max_retries) == k < max_retries

\* ExecutionService._place_order_with_retry from attempt k on; outcomes[k] is
\* what broker.place_order does on attempt k: "order", "none" or "raise".
\* [placed, calls]: the order returned (or Nil) and the place_order calls made
RECURSIVE PlaceFrom(_, _, _)
PlaceFrom(order, outcomes, k) ==
    IF outcomes[k] = "order"
    THEN [placed |-> Some(BrokerOrder(order, k)), calls |-> <<"place_order">>]
    ELSE IF RetryAgain(k, MaxRetries)
         THEN LET rest == PlaceFrom(order, outcomes, k + 1)
              IN [placed |-> rest.placed, calls |-> <<"place_order">> \o rest.calls]
         ELSE [placed |-> Nil, calls |-> <<"place_order">>]

ES_place_order_with_retry(order, outcomes) == PlaceFrom(order, outcomes, 1)

\* the paper branch without the status assignment: the order stays pending
PaperExecute_Mut(order) == order

\* the paper branch of execute_signal: the order is marked active
PaperExecute(order) == [order EXCEPT !.status = "active"]

\* the body without the paper branch: the broker is called in paper mode too
BrokerBoolBody_Mut(has_broker, paper, method, outcome) ==
    IF ~has_broker THEN [result |-> FALSE, calls |-> <<>>, outcomes |-> <<>>]
    ELSE [result |-> (outcome = "true"), calls |-> <<method>>, outcomes |-> <<outcome>>]

\* the body shared by close_position and modify_position: no broker -> False,
\* paper -> True without a broker call, live -> the broker's answer, False if
\* it raises.  outcome: "true", "false" or "raise".  [result, calls, outcomes]
BrokerBoolBody(has_broker, paper, method, outcome) ==
    IF ~has_broker THEN [result |-> FALSE, calls |-> <<>>, outcomes |-> <<>>]
    ELSE IF paper THEN [result |-> TRUE, calls |-> <<>>, outcomes |-> <<>>]
    ELSE [result |-> (outcome = "true"), calls |-> <<method>>, outcomes |-> <<outcome>>]

\* the broker methods with one call site wrapped and the other bare
BrokerExceptionCaught_Mut(method) == method # "modify_order"

\* whether the call site of a broker method sits in a try block whose except
\* clause swallows the exception: place_order (the except of the retry loop),
\* close_order and modify_order (the except returning False)
BrokerExceptionCaught(method) == method \in {"place_order", "close_order", "modify_order"}

\* whether an exception raised by the broker on one of the calls made leaves
\* the ExecutionService method; calls[i] is the method called, outcomes[i]
\* what the broker did on that call
Escaped(calls, outcomes) ==
    \E i \in 1..Len(calls) : outcomes[i] = "raise" /\ ~BrokerExceptionCaught(calls[i])

\* the record kept of the last ExecutionService call; outcomes: what the broker
\* did on the calls that were made
ExecDid(op, arg, result, constructed, placed, rejected, calls, outcomes) ==
    [op |-> op, arg |-> arg, paper |-> paper_trading, had_broker |-> broker,
     result |-> result, constructed |-> constructed, placed |-> placed,
     rejected |-> rejected, calls |-> calls, outcomes |-> outcomes,
     escaped |-> Escaped(calls, outcomes)]

\* ExecutionService.set_broker(broker)
ES_set_broker ==
    /\ broker' = TRUE
    /\ xlast' = ExecDid("set_broker", <<>>, Nil, <<>>, <<>>, <<>>, <<>>, <<>>)
    /\ UNCHANGED <<mgrVars, eaVars, paper_trading, now_ms, trackerVars, feedVars, riskVars, stratVars, brokerVars, wireVars>>

\* ExecutionService.set_paper_trading(enabled)
ES_set_paper_trading(enabled) ==
    /\ paper_trading' = enabled
    /\ xlast' = ExecDid("set_paper_trading", <<enabled>>, Nil, <<>>, <<>>, <<>>, <<>>, <<>>)
    /\ UNCHANGED <<mgrVars, eaVars, broker, now_ms, trackerVars, feedVars, riskVars, stratVars, brokerVars, wireVars>>

\* ExecutionService.execute_signal(signal); outcomes: what the broker's
\* place_order does on each attempt, should it be called
ES_execute_signal(signal, outcomes) ==
    /\ xlast' =
         IF ~broker
         THEN ExecDid("execute_signal", signal, Nil, <<>>, <<>>,
                      <<"No broker connection">>, <<>>, <<>>)
         ELSE IF ValidationRejections(signal) # <<>>
         THEN ExecDid("execute_signal", signal, Nil, <<>>, <<>>,
                      ValidationRejections(signal), <<>>, <<>>)
         ELSE LET order == ES_signal_to_order(signal, now_ms) IN
              IF paper_trading
              THEN LET active == PaperExecute(order)
                   IN ExecDid("execute_signal", signal, Some(active), <<order>>, <<active>>,
                              <<>>, <<>>, <<>>)
              ELSE LET r == ES_place_order_with_retry(order, outcomes)
                   IN IF r.placed # Nil
                      THEN ExecDid("execute_signal", signal, r.placed, <<order>>,
                                   <<Get(r.placed)>>, <<>>, r.calls, outcomes)
                      ELSE ExecDid("execute_signal", signal, Nil, <<order>>, <<>>,
                                   <<"Order placement failed">>, r.calls, outcomes)
    /\ UNCHANGED <<mgrVars, eaVars, broker, paper_trading, now_ms, trackerVars, feedVars, riskVars, stratVars, brokerVars, wireVars>>

BrokerBool(op, method, arg, outcome) ==
    LET b == BrokerBoolBody(broker, paper_trading, method, outcome)
    IN /\ xlast' = ExecDid(op, arg, Some(b.result), <<>>, <<>>, <<>>, b.calls, b.outcomes)
       /\ UNCHANGED <<mgrVars, eaVars, broker, paper_trading, now_ms, trackerVars, feedVars, riskVars, stratVars, brokerVars, wireVars>>

\* ExecutionService.close_position(ticket, ea_name)
ES_close_position(ticket, outcome) == BrokerBool("close_position", "close_order", <<ticket>>, outcome)

\* ExecutionService.modify_position(ticket, sl, tp)
ES_modify_position(ticket, sl, tp, outcome) ==
    BrokerBool("modify_position", "modify_order", <<ticket, sl, tp>>, outcome)

\* datetime.now() read by _generate_ticket moves on by a millisecond
MsPasses ==
    /\ now_ms < MaxClockMs
    /\ now_ms' = now_ms + 1
    /\ xlast' = ExecDid("clock", <<>>, Nil, <<>>, <<>>, <<>>, <<>>, <<>>)
    /\ UNCHANGED <<mgrVars, eaVars, broker, paper_trading, trackerVars, feedVars, riskVars, stratVars, brokerVars, wireVars>>

ASignal(signal_type, symbol, volume, price) ==
    [ea_name |-> <<"M">>, symbol |-> symbol, signal_type |-> signal_type, price |-> price,
     volume |-> volume, stop_loss |-> 0, take_profit |-> 0]

ExecSignals ==
    { ASignal(ty, sy, v, p) : ty \in SignalTypes \cup {"HOLD"}, sy \in {"", ColonX},
                              v \in {-1, 0, 100}, p \in {0, 100} }

PlaceOutcomes == [1..MaxRetries -> {"order", "none", "raise"}]

BoolOutcomes == {"true", "false", "raise"}

\* ------------------------------------------------- core/position_tracker.py
\* the tickets of a list of orders or of trailing-stop records
TicketsOf(l) == { l[i].ticket : i \in 1..Len(l) }

\* dict.get(ticket) on a dict held as the list of its values in insertion
\* order, each value carrying its key in the field ticket
ByTicket(l, ticket) == l[CHOOSE i \in 1..Len(l) : l[i].ticket = ticket]

\* d[ticket] = v: a new key goes to the end, an existing key keeps its place
DictPut(l, v) ==
    IF v.ticket \in TicketsOf(l)
    THEN [i \in 1..Len(l) |-> IF l[i].ticket = v.ticket THEN v ELSE l[i]]
    ELSE Append(l, v)

\* d.pop(ticket) / del d[ticket]: the dict without that key
RECURSIVE DictDel(_, _)
DictDel(l, ticket) ==
    IF l = <<>> THEN <<>>
    ELSE IF Head(l).ticket = ticket THEN Tail(l)
    ELSE <<Head(l)>> \o DictDel(Tail(l), ticket)

\* Order.is_buy
is_buy(order) == order.order_type \in {"buy", "buy limit", "buy stop"}

\* round(a / b, 0) on integers a >= 0, b > 0: nearest, a half to the even side
RoundDiv(a, b) ==
    LET q == a \div b
        r == a % b
    IN IF 2 * r < b THEN q
       ELSE IF 2 * r > b THEN q + 1
       ELSE IF q % 2 = 0 THEN q ELSE q + 1

\* sum(o.calculate_profit(o.close_price) for o in l), in cents
RECURSIVE SumProfit(_)
SumProfit(l) ==
    IF l = <<>> THEN 0
    ELSE calculate_profit(Head(l), Get(Head(l).close_price)) + SumProfit(Tail(l))

\* PositionTracker.get_statistics(): money in cents, win_rate in hundredths of
\* a percent, profit_factor in hundredths
get_statistics(closed) ==
    LET total_trades == Len(closed)
        wins == SelectSeq(closed, LAMBDA o : calculate_profit(o, Get(o.close_price)) > 0)
        losses == SelectSeq(closed, LAMBDA o : calculate_profit(o, Get(o.close_price)) <= 0)
        gross_profit == SumProfit(wins)
        gross_loss == Abs(SumProfit(losses))
    IN IF total_trades = 0
       THEN [total_trades |-> 0, winning_trades |-> 0, losing_trades |-> 0, win_rate |-> 0,
             total_profit |-> 0, avg_win |-> 0, avg_loss |-> 0, profit_factor |-> 0]
       ELSE [total_trades |-> total_trades,
             winning_trades |-> Len(wins),
             losing_trades |-> Len(losses),
             win_rate |-> RoundDiv(Len(wins) * 10000, total_trades),
             total_profit |-> SumProfit(closed),
             avg_win |-> IF Len(wins) > 0 THEN RoundDiv(gross_profit, Len(wins)) ELSE 0,
             avg_loss |-> IF Len(losses) > 0 THEN RoundDiv(gross_loss, Len(losses)) ELSE 0,
             profit_factor |-> IF gross_loss > 0 THEN RoundDiv(gross_profit * 100, gross_loss)
                               ELSE 0]

\* the record kept of the last PositionTracker call: the events it emitted
\* (<<signal, ticket>>), the close requests it sent to ExecutionService
\* (<<ticket, reason>>) and the trailing-stop updates it published
\* (<<ticket, new_sl>>), each in order
TrackerDid(op, arg, events, requests, updates) ==
    [op |-> op, arg |-> arg, events |-> events, requests |-> requests, updates |-> updates]

\* the stop-loss values last published, after a call that published updates
RECURSIVE Published(_, _)
Published(applied, updates) ==
    IF updates = <<>> THEN applied
    ELSE Published([applied EXCEPT ![Head(updates)[1]] = Some(Head(updates)[2])], Tail(updates))

\* PositionTracker.add_position(order): [open, events]
TrackerAdd(open, order) ==
    IF order.ticket \in TicketsOf(open)
    THEN [open |-> open, events |-> <<>>]
    ELSE [open |-> Append(open, order), events |-> << <<"position_opened", order.ticket>> >>]

\* PositionTracker.update_position(order): [open, events]
TrackerUpdate(open, order) ==
    IF order.ticket \notin TicketsOf(open)
    THEN IF order.status = "active" THEN TrackerAdd(open, order)
         ELSE [open |-> open, events |-> <<>>]
    ELSE [open |-> DictPut(open, order), events |-> << <<"position_updated", order.ticket>> >>]

\* close_position looking the ticket up in the history too: a ticket that is
\* no longer open is closed again from there
TrackerClose_Mut(open, closed, trailing, ticket, close_price) ==
    IF ticket \notin TicketsOf(open)
    THEN IF ticket \in TicketsOf(closed)
         THEN [open |-> open,
               closed |-> Append(closed, [ByTicket(closed, ticket) EXCEPT
                                             !.close_price = Some(close_price)]),
               trailing |-> trailing,
               events |-> << <<"position_closed", ticket>>, <<"order_closed", ticket>> >>]
         ELSE [open |-> open, closed |-> closed, trailing |-> trailing, events |-> <<>>]
    ELSE LET order == [ByTicket(open, ticket) EXCEPT !.close_price = Some(close_price),
                                                      !.status = "closed"]
         IN [open |-> DictDel(open, ticket),
             closed |-> Append(closed, order),
             trailing |-> IF ticket \in TicketsOf(trailing) THEN DictDel(trailing, ticket)
                          ELSE trailing,
             events |-> << <<"position_closed", ticket>>, <<"order_closed", ticket>> >>]

\* close_position without the removal of the trailing-stop record
TrackerClose_KeepsTrail(open, closed, trailing, ticket, close_price) ==
    IF ticket \notin TicketsOf(open)
    THEN [open |-> open, closed |-> closed, trailing |-> trailing, events |-> <<>>]
    ELSE LET order == [ByTicket(open, ticket) EXCEPT !.close_price = Some(close_price),
                                                      !.status = "closed"]
         IN [open |-> DictDel(open, ticket),
             closed |-> Append(closed, order),
             trailing |-> trailing,
             events |-> << <<"position_closed", ticket>>, <<"order_closed", ticket>> >>]

\* PositionTracker.close_position(ticket, close_price): [open, closed, trailing, events]
TrackerClose(open, closed, trailing, ticket, close_price) ==
    IF ticket \notin TicketsOf(open)
    THEN [open |-> open, closed |-> closed, trailing |-> trailing, events |-> <<>>]
    ELSE LET order == [ByTicket(open, ticket) EXCEPT !.close_price = Some(close_price),
                                                      !.status = "closed"]
         IN [open |-> DictDel(open, ticket),
             closed |-> Append(closed, order),
             trailing |-> IF ticket \in TicketsOf(trailing) THEN DictDel(trailing, ticket)
                          ELSE trailing,
             events |-> << <<"position_closed", ticket>>, <<"order_closed", ticket>> >>]

\* PositionTracker.enable_trailing_stop(ticket, trailing_pips, current_price): the records
TrackerEnableTrailing(open, trailing, ticket, trailing_pips, current_price) ==
    IF ticket \notin TicketsOf(open) THEN trailing
    ELSE DictPut(trailing, [ticket |-> ticket, pips |-> trailing_pips,
                            best_price |-> current_price,
                            is_buy |-> is_buy(ByTicket(open, ticket))])

\* one turn of the loop of update_trailing_stops, for one record:
\* [rec, updates]; prices are in pips, so pips * pip_value is the distance
TrailOne(open, rec, symbol, current_price) ==
    IF rec.ticket \notin TicketsOf(open) \/ ByTicket(open, rec.ticket).symbol # symbol
    THEN [rec |-> rec, updates |-> <<>>]
    ELSE LET order == ByTicket(open, rec.ticket) IN
         IF rec.is_buy
         THEN LET best_price == IF current_price > rec.best_price THEN current_price
                                ELSE rec.best_price
                  new_sl == best_price - rec.pips
              IN [rec |-> [rec EXCEPT !.best_price = best_price],
                  updates |-> IF new_sl > order.sl THEN << <<rec.ticket, new_sl>> >> ELSE <<>>]
         ELSE LET best_price == IF current_price < rec.best_price THEN current_price
                                ELSE rec.best_price
                  new_sl == best_price + rec.pips
              IN [rec |-> [rec EXCEPT !.best_price = best_price],
                  updates |-> IF new_sl < order.sl \/ order.sl = 0
                              THEN << <<rec.ticket, new_sl>> >> ELSE <<>>]

\* PositionTracker.update_trailing_stops(symbol, current_price) from record i
\* on: [trailing, updates]
RECURSIVE TrailFrom(_, _, _, _, _)
TrailFrom(open, trailing, symbol, current_price, i) ==
    IF i > Len(trailing) THEN [trailing |-> trailing, updates |-> <<>>]
    ELSE LET one == TrailOne(open, trailing[i], symbol, current_price)
             rest == TrailFrom(open, [trailing EXCEPT ![i] = one.rec], symbol,
                               current_price, i + 1)
         IN [trailing |-> rest.trailing, updates |-> one.updates \o rest.updates]

TrackerUpdateTrailing(open, trailing, symbol, current_price) ==
    TrailFrom(open, trailing, symbol, current_price, 1)

\* the price PositionTracker.on_tick checks a position against: symbol.last
TickPrice(tick, order) == tick.last

\* PositionTracker._check_sl_tp(order, current_price): the close requests
check_sl_tp(order, current_price) ==
    IF order.sl > 0 /\ (   (is_buy(order) /\ current_price <= order.sl)
                        \/ (~is_buy(order) /\ current_price >= order.sl))
    THEN << <<order.ticket, "SL_HIT">> >>
    ELSE IF order.tp > 0 /\ (   (is_buy(order) /\ current_price >= order.tp)
                             \/ (~is_buy(order) /\ current_price <= order.tp))
    THEN << <<order.ticket, "TP_HIT">> >>
    ELSE <<>>

\* the bar check with the stop-loss compared strictly
check_sl_tp_bar_Mut(order, bar) ==
    IF order.sl > 0 /\ is_buy(order) /\ bar.low < order.sl
    THEN << <<order.ticket, "SL_HIT_BAR">> >>
    ELSE IF order.sl > 0 /\ ~is_buy(order) /\ bar.high > order.sl
    THEN << <<order.ticket, "SL_HIT_BAR">> >>
    ELSE IF order.tp > 0 /\ is_buy(order) /\ bar.high >= order.tp
    THEN << <<order.ticket, "TP_HIT_BAR">> >>
    ELSE IF order.tp > 0 /\ ~is_buy(order) /\ bar.low <= order.tp
    THEN << <<order.ticket, "TP_HIT_BAR">> >>
    ELSE <<>>

\* PositionTracker._check_sl_tp_bar(order, bar): the close requests
check_sl_tp_bar(order, bar) ==
    IF order.sl > 0 /\ is_buy(order) /\ bar.low <= order.sl
    THEN << <<order.ticket, "SL_HIT_BAR">> >>
    ELSE IF order.sl > 0 /\ ~is_buy(order) /\ bar.high >= order.sl
    THEN << <<order.ticket, "SL_HIT_BAR">> >>
    ELSE IF order.tp > 0 /\ is_buy(order) /\ bar.high >= order.tp
    THEN << <<order.ticket, "TP_HIT_BAR">> >>
    ELSE IF order.tp > 0 /\ ~is_buy(order) /\ bar.low <= order.tp
    THEN << <<order.ticket, "TP_HIT_BAR">> >>
    ELSE <<>>

\* the loop of on_tick over list(open_positions.items()) from position i on:
\* per position on the tick's symbol, _check_sl_tp and then
\* update_trailing_stops; ExecutionService.close_position changes nothing in
\* the tracker, so the positions stay as they are.  [trailing, requests, updates]
RECURSIVE TickLoop(_, _, _, _)
TickLoop(open, trailing, tick, i) ==
    IF i > Len(open) THEN [trailing |-> trailing, requests |-> <<>>, updates |-> <<>>]
    ELSE IF open[i].symbol # tick.name THEN TickLoop(open, trailing, tick, i + 1)
    ELSE LET reqs == check_sl_tp(open[i], TickPrice(tick, open[i]))
             tr == TrackerUpdateTrailing(open, trailing, tick.name, tick.last)
             rest == TickLoop(open, tr.trailing, tick, i + 1)
         IN [trailing |-> rest.trailing, requests |-> reqs \o rest.requests,
             updates |-> tr.updates \o rest.updates]

\* the loop of on_bar from position i on: the close requests
RECURSIVE BarLoop(_, _, _, _)
BarLoop(open, bar, symbol_name, i) ==
    IF i > Len(open) THEN <<>>
    ELSE IF open[i].symbol # symbol_name THEN BarLoop(open, bar, symbol_name, i + 1)
    ELSE check_sl_tp_bar(open[i], bar) \o BarLoop(open, bar, symbol_name, i + 1)

\* the tickets of a list of close requests
Requested(requests) == { requests[i][1] : i \in 1..Len(requests) }

\* PositionTracker.add_position(order)
PT_add_position(order) ==
    LET r == TrackerAdd(open_positions, order)
    IN /\ open_positions' = r.open
       /\ tlast' = TrackerDid("add_position", <<order.ticket>>, r.events, <<>>, <<>>)
       /\ UNCHANGED <<closed_positions, trailing_stops, current_prices, tick_requested,
                      applied_sl, mgrVars, eaVars, execVars, feedVars, riskVars, stratVars, brokerVars, wireVars>>

\* PositionTracker.update_position(order)
PT_update_position(order) ==
    LET r == TrackerUpdate(open_positions, order)
    IN /\ open_positions' = r.open
       /\ tlast' = TrackerDid("update_position", <<order.ticket>>, r.events, <<>>, <<>>)
       /\ UNCHANGED <<closed_positions, trailing_stops, current_prices, tick_requested,
                      applied_sl, mgrVars, eaVars, execVars, feedVars, riskVars, stratVars, brokerVars, wireVars>>

\* PositionTracker.close_position(ticket, close_price)
PT_close_position(ticket, close_price) ==
    LET r == TrackerClose(open_positions, closed_positions, trailing_stops, ticket, close_price)
    IN /\ ticket \in TicketsOf(open_positions) => Len(closed_positions) < MaxClosed
       /\ open_positions' = r.open
       /\ closed_positions' = r.closed
       /\ trailing_stops' = r.trailing
       /\ tick_requested' = IF r.events # <<>> THEN tick_requested \ {ticket} ELSE tick_requested
       /\ applied_sl' = IF r.events # <<>> THEN [applied_sl EXCEPT ![ticket] = Nil] ELSE applied_sl
       /\ tlast' = TrackerDid("close_position", <<ticket, close_price>>, r.events, <<>>, <<>>)
       /\ UNCHANGED <<current_prices, mgrVars, eaVars, execVars, feedVars, riskVars, stratVars, brokerVars, wireVars>>

\* PositionTracker.enable_trailing_stop(ticket, trailing_pips, current_price)
PT_enable_trailing_stop(ticket, trailing_pips, current_price) ==
    /\ trailing_stops' = TrackerEnableTrailing(open_positions, trailing_stops, ticket,
                                               trailing_pips, current_price)
    /\ tlast' = TrackerDid("enable_trailing_stop", <<ticket, trailing_pips, current_price>>,
                           <<>>, <<>>, <<>>)
    /\ UNCHANGED <<open_positions, closed_positions, current_prices, tick_requested,
                   applied_sl, mgrVars, eaVars, execVars, feedVars, riskVars, stratVars, brokerVars, wireVars>>

\* PositionTracker.update_trailing_stops(symbol, current_price)
PT_update_trailing_stops(symbol, current_price) ==
    LET r == TrackerUpdateTrailing(open_positions, trailing_stops, symbol, current_price)
    IN /\ trailing_stops' = r.trailing
       /\ applied_sl' = Published(applied_sl, r.updates)
       /\ tlast' = TrackerDid("update_trailing_stops", <<symbol, current_price>>,
                              <<>>, <<>>, r.updates)
       /\ UNCHANGED <<open_positions, closed_positions, current_prices, tick_requested,
                      mgrVars, eaVars, execVars, feedVars, riskVars, stratVars, brokerVars, wireVars>>

\* PositionTracker.on_tick(symbol)
PT_on_tick(tick) ==
    IF tick.last = 0
    THEN /\ tlast' = TrackerDid("on_tick", tick, <<>>, <<>>, <<>>)
         /\ UNCHANGED <<open_positions, closed_positions, trailing_stops, current_prices,
                        tick_requested, applied_sl, mgrVars, eaVars, execVars, feedVars, riskVars, stratVars, brokerVars, wireVars>>
    ELSE LET r == TickLoop(open_positions, trailing_stops, tick, 1)
         IN /\ current_prices' = [current_prices EXCEPT ![tick.name] = Some(tick.last)]
            /\ trailing_stops' = r.trailing
            /\ applied_sl' = Published(applied_sl, r.updates)
            /\ tick_requested' = tick_requested \cup Requested(r.requests)
            /\ tlast' = TrackerDid("on_tick", tick, <<>>, r.requests, r.updates)
            /\ UNCHANGED <<open_positions, closed_positions, mgrVars, eaVars, execVars,
                           feedVars, riskVars, stratVars, brokerVars, wireVars>>

\* PositionTracker.on_bar(bar, symbol_name)
PT_on_bar(bar, symbol_name) ==
    /\ tlast' = TrackerDid("on_bar", <<bar, symbol_name>>, <<>>,
                           BarLoop(open_positions, bar, symbol_name, 1), <<>>)
    /\ UNCHANGED <<open_positions, closed_positions, trailing_stops, current_prices,
                   tick_requested, applied_sl, mgrVars, eaVars, execVars, feedVars, riskVars, stratVars, brokerVars, wireVars>>

\* --------------------------------------------------- PositionTracker inputs
Tickets == {1, 2}

PositionOrder(ticket, side, symbol, sl, tp, status) ==
    [ticket |-> ticket, status |-> status, symbol |-> symbol, comment |-> <<>>,
     order_type |-> side, volume |-> 100, open_price |-> 100, sl |-> sl, tp |-> tp,
     close_price |-> Nil]

\* a long with both levels set and a short with a take-profit only
LedgerOrders ==
    { PositionOrder(1, "buy", ColonX, 98, 102, "active"),
      PositionOrder(2, "sell", ColonX, 0, 98, "active") }

\* the same orders coming back as order updates, the long also with its stop moved
UpdateOrders == LedgerOrders \cup { PositionOrder(1, "buy", ColonX, 99, 102, "active") }

ClosePrices == {102}
TrailingPips == {1}
TrailingPrices == {100, 102}
TrailingSymbols == {ColonX, ColonY}

\* positions watched for SL/TP: longs and shorts with a level set or not (0),
\* one of them on another symbol
WatchOrders ==
    { PositionOrder(1, "buy", ColonX, 98, 102, "active"),
      PositionOrder(1, "buy", ColonX, 98, 0, "active"),
      PositionOrder(2, "sell", ColonX, 102, 98, "active"),
      PositionOrder(2, "sell", ColonX, 0, 98, "active"),
      PositionOrder(2, "buy", ColonY, 98, 102, "active") }

\* the tickets closed while the watch runs
WatchCloses == {1}

\* a quote: Symbol(name, bid, ask, last)
Tick(name, ltp, bid, ask) == [name |-> name, last |-> ltp, bid |-> bid, ask |-> ask]

WatchTicks ==
    { Tick(ColonX, 0, 98, 100), Tick(ColonX, 98, 98, 100), Tick(ColonX, 100, 98, 100),
      Tick(ColonX, 100, 100, 102), Tick(ColonX, 102, 100, 102), Tick(ColonY, 100, 100, 100) }

\* a candle: OHLCData(open, high, low, close)
Bar(low, high) == [open |-> 100, high |-> high, low |-> low, close |-> 100]

\* quotes of one instrument under its two spellings
SpellingTicks ==
    { Tick(PipeX, 98, 98, 98), Tick(PipeX, 100, 100, 100), Tick(ColonX, 98, 98, 98),
      Tick(PipeX, 0, 98, 98) }

WatchBars == { Bar(97, 101), Bar(98, 101), Bar(99, 101), Bar(99, 102), Bar(97, 103) }

\* ------------------------------------ the SL/TP watch with its close requests
\* what the close_position calls of one on_tick / on_bar leave behind in the
\* ExecutionService: each request is a call of close_position(ticket, reason);
\* outcome is what the broker's close_order does when it is called
CloseRequestsRun(requests, outcome) ==
    IF requests = <<>> THEN xlast
    ELSE LET b == BrokerBoolBody(broker, paper_trading, "close_order", outcome)
         IN ExecDid("close_position", <<requests[Len(requests)][1]>>, Some(b.result),
                    <<>>, <<>>, <<>>, b.calls, b.outcomes)

\* PositionTracker.on_tick(tick) with the calls it makes on the ExecutionService.
\* order_closed, which a broker emits on closing, has no subscriber that calls
\* the tracker (main.py:428, connection_manager.py:40, account_manager.py:21).
LQ_on_tick(tick, outcome) ==
    IF tick.last = 0
    THEN /\ tlast' = TrackerDid("on_tick", tick, <<>>, <<>>, <<>>)
         /\ UNCHANGED <<open_positions, closed_positions, trailing_stops, current_prices,
                        tick_requested, applied_sl, mgrVars, eaVars, execVars, feedVars,
                        riskVars, stratVars, brokerVars, wireVars>>
    ELSE LET r == TickLoop(open_positions, trailing_stops, tick, 1)
         IN /\ current_prices' = [current_prices EXCEPT ![tick.name] = Some(tick.last)]
            /\ trailing_stops' = r.trailing
            /\ applied_sl' = Published(applied_sl, r.updates)
            /\ tick_requested' = tick_requested \cup Requested(r.requests)
            /\ tlast' = TrackerDid("on_tick", tick, <<>>, r.requests, r.updates)
            /\ xlast' = CloseRequestsRun(r.requests, outcome)
            /\ UNCHANGED <<open_positions, closed_positions, mgrVars, eaVars, broker,
                           paper_trading, now_ms, feedVars, riskVars, stratVars, brokerVars, wireVars>>

\* PositionTracker.on_bar(bar, symbol_name) with the calls it makes on the
\* ExecutionService
LQ_on_bar(bar, symbol_name, outcome) ==
    LET requests == BarLoop(open_positions, bar, symbol_name, 1)
    IN /\ tlast' = TrackerDid("on_bar", <<bar, symbol_name>>, <<>>, requests, <<>>)
       /\ xlast' = CloseRequestsRun(requests, outcome)
       /\ UNCHANGED <<open_positions, closed_positions, trailing_stops, current_prices,
                      tick_requested, applied_sl, mgrVars, eaVars, broker, paper_trading,
                      now_ms, feedVars, riskVars, stratVars, brokerVars, wireVars>>

\* a long and a short under watch, and the quotes and bars that reach their levels
LiquidateOrders ==
    { PositionOrder(1, "buy", ColonX, 98, 102, "active"),
      PositionOrder(2, "sell", ColonX, 0, 98, "active") }
LiquidateTicks == { Tick(ColonX, 98, 98, 100), Tick(ColonX, 100, 100, 102) }
LiquidateBars == { Bar(97, 101), Bar(99, 101) }

\* ------------------------------------------ brokers/dummy/dummy_broker.py
\* the place of the first order with the ticket in the broker's list, 0 if none
FirstWithTicket(orders, ticket) ==
    IF ticket \notin TicketsOf(orders) THEN 0
    ELSE CHOOSE i \in 1..Len(orders) :
            orders[i].ticket = ticket /\ \A j \in 1..(i - 1) : orders[j].ticket # ticket

\* DummyBroker.modify_order(ticket, sl, tp): [orders, result]
DB_modify_order(orders, ticket, sl, tp) ==
    LET i == FirstWithTicket(orders, ticket)
    IN IF i = 0 THEN [orders |-> orders, result |-> FALSE]
       ELSE [orders |-> [orders EXCEPT ![i].sl = sl, ![i].tp = tp], result |-> TRUE]

\* DummyBroker.place_order: the order joins _open_orders under a fresh ticket
DB_place_order(order) ==
    /\ order.ticket \notin TicketsOf(broker_orders)
    /\ broker_orders' = Append(broker_orders, order)
    /\ UNCHANGED <<mgrVars, eaVars, execVars, trackerVars, feedVars, riskVars, stratVars, wireVars>>

\* ---------------------------------------- plugins/strategies/ma_crossover.py
\* the default of modify_position's tp parameter, which handle_tick leaves out
DefaultTp == 0

\* the loop "for ticket, new_sl in updates: modify_position(ticket, sl=new_sl)":
\* the broker's orders and the record of the last call.  modify_position goes
\* to the broker only with a broker set and paper trading off.
RECURSIVE PushUpdates(_, _, _)
PushUpdates(orders, did, updates) ==
    IF updates = <<>> THEN [orders |-> orders, did |-> did]
    ELSE LET ticket == Head(updates)[1]
             new_sl == Head(updates)[2]
             live == broker /\ ~paper_trading
             m == IF live THEN DB_modify_order(orders, ticket, new_sl, DefaultTp)
                  ELSE [orders |-> orders, result |-> FALSE]
             b == BrokerBoolBody(broker, paper_trading, "modify_order",
                                 IF m.result THEN "true" ELSE "false")
         IN PushUpdates(m.orders,
                        ExecDid("modify_position", <<ticket, new_sl, DefaultTp>>,
                                Some(b.result), <<>>, <<>>, <<>>, b.calls, b.outcomes),
                        Tail(updates))

\* MACrossoverEA.handle_tick(tick) (BullishBreakoutEA.handle_tick is the same
\* code) of a strategy on symbol with use_trailing_stop set and a position open
MA_handle_tick(symbol, price) ==
    LET r == TrackerUpdateTrailing(open_positions, trailing_stops, symbol, price)
        p == PushUpdates(broker_orders, xlast, r.updates)
    IN /\ trailing_stops' = r.trailing
       /\ applied_sl' = Published(applied_sl, r.updates)
       /\ tlast' = TrackerDid("handle_tick", <<symbol, price>>, <<>>, <<>>, r.updates)
       /\ broker_orders' = p.orders
       /\ xlast' = p.did
       /\ UNCHANGED <<open_positions, closed_positions, current_prices, tick_requested,
                      mgrVars, eaVars, broker, paper_trading, now_ms, feedVars, riskVars,
                      stratVars, wireVars>>

\* --------------------------------------------------- core/candle_builder.py
\* CandleBuilder.timeframes, in the dict's order: <<name, minutes>>
Timeframes ==
    << <<"M1", 1>>, <<"M5", 5>>, <<"M15", 15>>, <<"M30", 30>>,
       <<"H1", 60>>, <<"H4", 240>>, <<"D1", 1440>> >>

TimeframeNames == { Timeframes[i][1] : i \in 1..Len(Timeframes) }

MinutesOf(tf) == (CHOOSE i \in 1..Len(Timeframes) : Timeframes[i][1] = tf)

\* the start of the candle with the minutes of the hour left as they are
get_candle_start_time_Mut(current_time, minutes) ==
    IF minutes < 1440 THEN current_time ELSE (current_time \div 1440) * 1440

\* CandleBuilder._get_candle_start_time(current_time, minutes); a time is the
\* count of minutes since midnight of day 0 (seconds are cut off anyway)
get_candle_start_time(current_time, minutes) ==
    LET day == current_time \div 1440
        hour == (current_time \div 60) % 24
        minute == current_time % 60
    IN IF minutes < 60
       THEN day * 1440 + hour * 60 + (minute \div minutes) * minutes
       ELSE IF minutes < 1440
       THEN day * 1440 + (hour \div (minutes \div 60)) * (minutes \div 60) * 60
       ELSE day * 1440

\* OHLCData(timestamp, open, high, low, close, volume) with __post_init__
OHLCData(timestamp, o, h, l, c) ==
    LET high == IF h < Max(Max(o, c), l) THEN Max(Max(o, c), l) ELSE h
        minocl == IF o < c THEN (IF o < high THEN o ELSE high)
                  ELSE (IF c < high THEN c ELSE high)
        low == IF l > minocl THEN minocl ELSE l
    IN [timestamp |-> timestamp, open |-> o, high |-> high, low |-> low, close |-> c,
        volume |-> 0]

\* the update of the current candle with the low left as it was
CandleUpdate_Mut(candle, price) ==
    [candle EXCEPT !.high = Max(candle.high, price), !.close = price]

\* process_tick, "update existing candle"
CandleUpdate(candle, price) ==
    [candle EXCEPT !.high = Max(candle.high, price),
                   !.low = IF price < candle.low THEN price ELSE candle.low,
                   !.close = price]

\* the turn of the loop of process_tick for one timeframe: cc and lt are
\* current_candles[symbol_name] and last_candle_time[symbol_name] (Nil: no
\* key).  [cc, lt, closed]: closed holds the candle handed to _emit_candle_close
BuildOne(cc, lt, tf, minutes, price, current_time) ==
    LET candle_time == get_candle_start_time(current_time, minutes)
        closed == IF lt[tf] # Nil /\ candle_time > Get(lt[tf]) /\ cc[tf] # Nil
                  THEN << [tf |-> tf, candle |-> Get(cc[tf])] >>
                  ELSE <<>>
    IN IF cc[tf] = Nil \/ lt[tf] = Nil \/ candle_time > Get(lt[tf])
       THEN [cc |-> [cc EXCEPT ![tf] = Some(OHLCData(candle_time, price, price, price, price))],
             lt |-> [lt EXCEPT ![tf] = Some(candle_time)],
             closed |-> closed]
       ELSE [cc |-> [cc EXCEPT ![tf] = Some(CandleUpdate(Get(cc[tf]), price))],
             lt |-> lt,
             closed |-> closed]

\* the loop of process_tick over the timeframes from the i-th on
RECURSIVE BuildFrom(_, _, _, _, _)
BuildFrom(cc, lt, price, current_time, i) ==
    IF i > Len(Timeframes) THEN [cc |-> cc, lt |-> lt, closed |-> <<>>]
    ELSE LET one == BuildOne(cc, lt, Timeframes[i][1], Timeframes[i][2], price, current_time)
             rest == BuildFrom(one.cc, one.lt, price, current_time, i + 1)
         IN [cc |-> rest.cc, lt |-> rest.lt, closed |-> one.closed \o rest.closed]

\* CandleBuilder.process_tick(symbol) at clock current_time
process_tick(cc, lt, price, current_time) ==
    IF price = 0 THEN [cc |-> cc, lt |-> lt, closed |-> <<>>]
    ELSE BuildFrom(cc, lt, price, current_time, 1)

\* ----------------------------------------------------- core/feed_manager.py
\* d[k] = v on a dict held as a function
DictSet(d, k, v) == [x \in (DOMAIN d) \cup {k} |-> IF x = k THEN v ELSE d[x]]

\* SymbolNormalizer.register_mapping(colon_format, pipe_format): [c2p, p2c]
register_mapping(c2p, p2c, colon_format, pipe_format) ==
    [c2p |-> DictSet(c2p, colon_format, pipe_format),
     p2c |-> DictSet(p2c, pipe_format, colon_format)]

\* '|' in s, ':' in s
HasPipe(s) == s \in {PipeX}
HasColon(s) == s \in {ColonX, ColonY}

\* SymbolNormalizer.auto_register_from_symbol(symbol_obj): [c2p, p2c]
auto_register_from_symbol(c2p, p2c, tick) ==
    LET colon_format == IF tick.display_name # None THEN tick.display_name ELSE tick.name
    IN IF HasPipe(tick.name) /\ HasColon(colon_format)
       THEN register_mapping(c2p, p2c, colon_format, tick.name)
       ELSE [c2p |-> c2p, p2c |-> p2c]

\* the list with the candle stored and nothing dropped
StoreCandle_Mut(candles, candle) ==
    IF candles # <<>> /\ candles[Len(candles)].timestamp = candle.timestamp
    THEN [candles EXCEPT ![Len(candles)] = candle]
    ELSE Append(candles, candle)

\* FeedManager._on_candle_updated(symbol, candle) on the list of one symbol
StoreCandle(candles, candle) ==
    IF candles # <<>> /\ candles[Len(candles)].timestamp = candle.timestamp
    THEN [candles EXCEPT ![Len(candles)] = candle]
    ELSE LET more == Append(candles, candle)
         IN IF Len(more) > RetainedCandles THEN Tail(more) ELSE more

\* the list _on_candle_updated would keep if it never dropped a candle
EverStored(candles, candle) ==
    IF candles # <<>> /\ candles[Len(candles)].timestamp = candle.timestamp
    THEN [candles EXCEPT ![Len(candles)] = candle]
    ELSE Append(candles, candle)

RECURSIVE EverStoredAll(_, _)
EverStoredAll(candles, closed) ==
    IF closed = <<>> THEN candles
    ELSE EverStoredAll(EverStored(candles, Head(closed).candle), Tail(closed))

\* the candle closes of one process_tick call stored one after the other
RECURSIVE StoreAll(_, _)
StoreAll(candles, closed) ==
    IF closed = <<>> THEN candles
    ELSE StoreAll(StoreCandle(candles, Head(closed).candle), Tail(closed))

\* candles[-count:] of Python for count >= 0: -0 is 0, the slice from the start
SliceLast(candles, count) ==
    IF count = 0 THEN candles ELSE SubSeq(candles, Len(candles) - count + 1, Len(candles))

\* FeedManager.get_candles(symbol, count) on the list of the symbol
get_candles(candles, count) ==
    IF Len(candles) > count THEN SliceLast(candles, count) ELSE candles

\* the events one update_tick call publishes, in the order it publishes them:
\* tick_received from update_tick, then candle_updated for every candle that
\* process_tick closes; buckets are the ticks of the symbol's buckets before
\* the call, noted with each close as the ticks the candle was built from
FeedEvents(tick, current_time, closed, buckets) ==
    << [signal |-> "tick_received", symbol |-> tick.name, at |-> current_time] >>
    \o [i \in 1..Len(closed) |->
          [signal |-> "candle_updated", symbol |-> tick.name, tf |-> closed[i].tf,
           candle |-> closed[i].candle, ticks |-> buckets[closed[i].tf].prices]]

\* the record kept of the last FeedManager call
FeedDid(op, tick, events) == [op |-> op, tick |-> tick, events |-> events]

\* the ticks of the bucket a timeframe is in after a tick at current_time:
\* [start, prices]
BucketAfter(bucket, minutes, price, current_time) ==
    LET start == get_candle_start_time(current_time, minutes)
    IN IF bucket.prices = <<>> \/ start > bucket.start
       THEN [start |-> start, prices |-> <<price>>]
       ELSE [bucket EXCEPT !.prices = Append(@, price)]

\* the bucket starts of the candles a call closes, added to those closed before
RECURSIVE SealedAfter(_, _)
SealedAfter(sealed, closed) ==
    IF closed = <<>> THEN sealed
    ELSE SealedAfter([sealed EXCEPT ![Head(closed).tf] = Append(@, Head(closed).candle.timestamp)],
                     Tail(closed))

\* FeedManager.update_tick(symbol_data), with datetime.now() = current_time
FM_update_tick_at(tick, current_time) ==
    LET reg == auto_register_from_symbol(colon_to_pipe, pipe_to_colon, tick)
        built == process_tick(current_candles[tick.name], last_candle_time[tick.name],
                              tick.last, current_time)
    IN /\ now_min' = current_time
       /\ ticks_fed' = ticks_fed + 1
       /\ fm_symbols' = [fm_symbols EXCEPT ![tick.name] = Some(tick)]
       /\ colon_to_pipe' = reg.c2p
       /\ pipe_to_colon' = reg.p2c
       /\ current_candles' = [current_candles EXCEPT ![tick.name] = built.cc]
       /\ last_candle_time' = [last_candle_time EXCEPT ![tick.name] = built.lt]
       /\ fm_candles' = [fm_candles EXCEPT ![tick.name] = StoreAll(@, built.closed)]
       /\ flast' = FeedDid("update_tick", tick, FeedEvents(tick, current_time, built.closed,
                                                           bucket_ticks[tick.name]))
       /\ bucket_ticks' =
            IF tick.last = 0 THEN bucket_ticks
            ELSE [bucket_ticks EXCEPT ![tick.name] =
                    [tf \in TimeframeNames |->
                       BucketAfter(bucket_ticks[tick.name][tf], Timeframes[MinutesOf(tf)][2],
                                   tick.last, current_time)]]
       /\ sealed_times' = [sealed_times EXCEPT ![tick.name] = SealedAfter(@, built.closed)]
       /\ stored_ever' = [stored_ever EXCEPT ![tick.name] = EverStoredAll(@, built.closed)]
       /\ UNCHANGED <<eas, running_eas, max_concurrent_eas, eaVars, execVars, trackerVars,
                      riskVars, stratVars, brokerVars, wireVars>>

\* a tick handed to update_tick at the current minute
FM_update_tick(tick) ==
    /\ ticks_fed < MaxTicks
    /\ FM_update_tick_at(tick, now_min)

\* a tick handed to update_tick some minutes after the previous one
FM_tick_arrives(tick, elapsed) ==
    /\ ticks_fed < MaxArrivals
    /\ FM_update_tick_at(tick, now_min + elapsed)

\* FeedManager.update_candle(symbol, candle): the candle is stored, and stored
\* once more by _on_candle_updated when update_candle emits candle_updated
FM_update_candle(symbol, candle) ==
    /\ ticks_fed < MaxArrivals
    /\ ticks_fed' = ticks_fed + 1
    /\ fm_candles' = [fm_candles EXCEPT ![symbol] = StoreCandle(StoreCandle(@, candle), candle)]
    /\ stored_ever' = [stored_ever EXCEPT ![symbol] = EverStored(EverStored(@, candle), candle)]
    /\ flast' = FeedDid("update_candle", candle,
                        << [signal |-> "candle_updated", symbol |-> symbol, tf |-> None,
                            candle |-> candle, ticks |-> <<>>] >>)
    /\ UNCHANGED <<mgrVars, eaVars, execVars, trackerVars, current_candles, last_candle_time,
                   fm_symbols, now_min, bucket_ticks, sealed_times, riskVars, stratVars, brokerVars, wireVars>>

\* datetime.now() read by process_tick moves on by a minute
MinutePasses ==
    /\ now_min < MaxMinute
    /\ now_min' = now_min + 1
    /\ flast' = FeedDid("clock", Nil, <<>>)
    /\ UNCHANGED <<mgrVars, eaVars, execVars, trackerVars, current_candles, last_candle_time,
                   fm_symbols, fm_candles, ticks_fed, bucket_ticks, sealed_times,
                   stored_ever, riskVars, stratVars, brokerVars, wireVars>>

\* ------------------------------------------------------------- feed inputs
FeedSymbols == {PipeX}

\* a quote as the feed gets it: Symbol(name, display_name, last)
FeedTick(name, display_name, ltp) == [name |-> name, display_name |-> display_name, last |-> ltp]

FeedPrices == {0, 99, 100, 101, 102}

FeedTicks == { FeedTick(PipeX, ColonX, p) : p \in FeedPrices }

NoCandles == [tf \in TimeframeNames |-> Nil]

NoFeedCall == FeedDid("init", Nil, <<>>)

\* a list of n candles of consecutive minutes, as n calls of update_candle leave it
Preloaded(n) == [i \in 1..n |-> OHLCData(i, 100, 100, 100, 100)]

\* the lengths of the list when the retention run starts: empty, one candle,
\* one below the cap, at the cap
PreloadLengths == {0, 1, RetainedCandles - 1, RetainedCandles}

\* the counts get_candles is asked for
Counts == {0, 1, 2, DefaultCount, RetainedCandles, RetainedCandles + 1}

\* the candles handed to update_candle: one more of the minute of the last
\* candle, or the first of the next minute
NextCandles(candles) ==
    LET times == IF candles = <<>> THEN {now_min}
                 ELSE {candles[Len(candles)].timestamp, candles[Len(candles)].timestamp + 1}
    IN { OHLCData(t, p, p, p, p) : t \in times, p \in {99, 100, 101} }

\* the last prices of the ticks of the bucket run: a trade, no trade, a negative price
ArrivalPrices == {100, 0, -1}

ArrivalTicks == { FeedTick(PipeX, ColonX, p) : p \in ArrivalPrices }

\* minutes between a tick and the one before it: none, a minute, five minutes,
\* four hours, a day
Elapsed == {0, 1, 5, 240, 1440}

\* ------------------------------------------------------ core/risk_manager.py
\* can_open_position, the daily loss check, with the limit itself let through
LossLimitReached_Mut(loss, balance) ==
    loss < 0 /\ Abs(loss) * 100 > MaxDailyLossPercent * balance

\* can_open_position, the daily loss check: abs(daily_loss / balance) * 100 >=
\* max_daily_loss for a negative daily_loss, without the division
LossLimitReached(loss, balance) ==
    loss < 0 /\ Abs(loss) * 100 >= MaxDailyLossPercent * balance

\* RiskManager.can_open_position(ea_name, risk_percent, lot_size): <<allowed, reason>>
can_open_position(loss, balance, equity, risk_percent) ==
    IF LossLimitReached(loss, balance) THEN <<FALSE, "Daily loss limit reached">>
    ELSE IF risk_percent > MaxRiskPerTrade THEN <<FALSE, "Risk exceeds max">>
    ELSE IF 2 * equity <= balance THEN <<FALSE, "Account equity below 50% of balance">>
    ELSE <<TRUE, "OK">>

\* the record kept of the last RiskManager call
RiskDid(op, arg, result) == [op |-> op, arg |-> arg, result |-> result]

NoRiskCall == RiskDid("init", Nil, Nil)

\* RiskManager.update_account_balance(balance, equity)
RM_update_account_balance(balance, equity) ==
    /\ account_balance' = balance
    /\ account_equity' = equity
    /\ rlast' = RiskDid("update_account_balance", <<balance, equity>>, Nil)
    /\ UNCHANGED <<daily_loss, mgrVars, eaVars, execVars, trackerVars, feedVars, stratVars, brokerVars, wireVars>>

\* RiskManager.update_daily_loss(profit)
RM_update_daily_loss(profit) ==
    /\ Abs(daily_loss + profit) <= MaxSwing
    /\ daily_loss' = daily_loss + profit
    /\ rlast' = RiskDid("update_daily_loss", <<profit>>, Nil)
    /\ UNCHANGED <<account_balance, account_equity, mgrVars, eaVars, execVars, trackerVars,
                   feedVars, stratVars, brokerVars, wireVars>>

\* RiskManager.reset_daily_loss()
RM_reset_daily_loss ==
    /\ daily_loss' = 0
    /\ rlast' = RiskDid("reset_daily_loss", Nil, Nil)
    /\ UNCHANGED <<account_balance, account_equity, mgrVars, eaVars, execVars, trackerVars,
                   feedVars, stratVars, brokerVars, wireVars>>

\* RiskManager.can_open_position(ea_name, risk_percent, lot_size)
RM_can_open_position(ea_name, risk_percent, lot_size) ==
    /\ rlast' = RiskDid("can_open_position", <<ea_name, risk_percent, lot_size>>,
                        can_open_position(daily_loss, account_balance, account_equity,
                                          risk_percent))
    /\ UNCHANGED <<account_balance, account_equity, daily_loss, mgrVars, eaVars, execVars,
                   trackerVars, feedVars, stratVars, brokerVars, wireVars>>

\* ------------------------------------------------------- RiskManager inputs
\* balance and equity as the account reports them
Accounts == { <<100, 100>>, <<100, 51>>, <<100, 50>>, <<200, 100>>, <<200, 250>> }

\* the results of closed trades
Profits == {-5, -1, 3}

\* risk_percent of the trade asked for
RiskPercents == {1, 2, 3}

\* ---------------------------------------------------------- specifications
\* ------------------------------------- plugins/strategies/bullish_breakout.py
\* BullishBreakoutEA.max_candles
MaxCandles == 50

\* candles[-self.max_candles:] of _load_initial_candles
BufferFrom(candles) ==
    IF Len(candles) > MaxCandles THEN SliceLast(candles, MaxCandles) ELSE candles

\* BullishBreakoutEA._add_candle
add_candle(buffer, bar) ==
    LET b == Append(buffer, bar) IN IF Len(b) > MaxCandles THEN Tail(b) ELSE b

\* the pattern test of _check_pattern: lower low, higher high, higher close
PatternDetected(candle_0, candle_1) ==
    /\ candle_0.low < candle_1.low
    /\ candle_0.high > candle_1.high
    /\ candle_0.close > candle_1.close

\* the duplicate test with > for >=: the candle signalled last is let through again
AlreadySignalled_Mut(signal_time, timestamp) ==
    signal_time # Nil /\ Get(signal_time) > timestamp

\* the duplicate test of _check_pattern (a datetime is never falsy)
AlreadySignalled(signal_time, timestamp) ==
    signal_time # Nil /\ Get(signal_time) >= timestamp

\* BullishBreakoutEA._check_pattern on the buffer; passes: _generate_buy_signal
\* gets past its filters and the risk manager and calls generate_signal.
\* last_signal_time is set whether it does or not.
check_pattern(buffer, signal_time, passes) ==
    LET candle_0 == buffer[Len(buffer)]
        candle_1 == buffer[Len(buffer) - 1]
    IN IF Len(buffer) < 3 \/ ~PatternDetected(candle_0, candle_1)
          \/ AlreadySignalled(signal_time, candle_0.timestamp)
       THEN [last_signal_time |-> signal_time, signalled |-> FALSE]
       ELSE [last_signal_time |-> Some(candle_0.timestamp), signalled |-> passes]

\* BullishBreakoutEA.on_start, the hook ExpertAdvisor.start calls on a strategy
\* that is not running: state reset, then _load_initial_candles
BB_on_start ==
    /\ last_signal_time' = Nil
    /\ candles_buffer' = BufferFrom(get_candles(fm_candles[PipeX], 10))
    /\ signals' = <<>>
    /\ UNCHANGED <<mgrVars, eaVars, execVars, trackerVars, feedVars, riskVars, brokerVars, wireVars>>

\* BullishBreakoutEA.handle_bar(bar)
BB_handle_bar(bar, passes) ==
    /\ Len(candles_buffer) < MaxBars
    /\ LET buffer == add_candle(candles_buffer, bar)
           r == check_pattern(buffer, last_signal_time, passes)
       IN /\ candles_buffer' = buffer
          /\ last_signal_time' = r.last_signal_time
          /\ signals' = IF r.signalled THEN Append(signals, bar.timestamp) ELSE signals
    /\ UNCHANGED <<mgrVars, eaVars, execVars, trackerVars, feedVars, riskVars, brokerVars, wireVars>>

\* bars handed to the strategy: three shapes, each a breakout over the one
\* before it, under two timestamps
BarShapes == {<<100, 101, 100>>, <<99, 102, 101>>, <<98, 103, 102>>}
BreakoutBars == { OHLCData(t, 100, sh[2], sh[1], sh[3]) : t \in {1, 2}, sh \in BarShapes }

\* ------------------------------------------------ utils/symbol_normalizer.py
\* SymbolNormalizer.register_mapping(colon_format, pipe_format) as a call
SN_register_mapping(colon_format, pipe_format) ==
    LET reg == register_mapping(colon_to_pipe, pipe_to_colon, colon_format, pipe_format)
    IN /\ colon_to_pipe' = reg.c2p
       /\ pipe_to_colon' = reg.p2c
       /\ last' = Did("register_mapping", <<colon_format, pipe_format>>, TRUE)
       /\ UNCHANGED <<eas, running_eas, max_concurrent_eas, ea, now, counted, execVars,
                      trackerVars, feedVars, riskVars, stratVars, brokerVars, wireVars>>

\* SymbolNormalizer.match(symbol1, symbol2) as a call
SN_match(symbol1, symbol2) ==
    /\ last' = Did("match", <<symbol1, symbol2>>,
                   match(colon_to_pipe, pipe_to_colon, symbol1, symbol2))
    /\ UNCHANGED <<mgrVars, ea, now, counted, execVars, trackerVars, feedVars, riskVars,
                   stratVars, brokerVars, wireVars>>

\* a second broker token, and the spellings matched
PipeY == "NSE|2"
Spellings == {ColonX, ColonY, PipeX, PipeY}

NoCall == Did("init", <<>>, TRUE)

NoExecCall ==
    [op |-> "init", arg |-> <<>>, paper |-> TRUE, had_broker |-> FALSE, result |-> Nil,
     constructed |-> <<>>, placed |-> <<>>, rejected |-> <<>>, calls |-> <<>>, outcomes |-> <<>>,
     escaped |-> FALSE]

NoTrackerCall == TrackerDid("init", <<>>, <<>>, <<>>, <<>>)

\* the state after construction, the stored candles left open
InitButCandles ==
    /\ eas = {}
    /\ running_eas = <<>>
    /\ max_concurrent_eas = DefaultMaxConcurrentEAs
    /\ now = [day |-> 0, hour |-> 0]
    /\ last = NoCall
    /\ counted = [t \in Tickets |-> 0]
    /\ broker = FALSE
    /\ paper_trading = TRUE
    /\ now_ms = 0
    /\ xlast = NoExecCall
    /\ open_positions = <<>>
    /\ closed_positions = <<>>
    /\ trailing_stops = <<>>
    /\ current_prices = [sy \in {ColonX, ColonY, PipeX} |-> Nil]
    /\ tlast = NoTrackerCall
    /\ tick_requested = {}
    /\ applied_sl = [t \in Tickets |-> Nil]
    /\ current_candles = [sy \in FeedSymbols |-> NoCandles]
    /\ last_candle_time = [sy \in FeedSymbols |-> NoCandles]
    /\ fm_symbols = [sy \in FeedSymbols |-> Nil]
    /\ now_min = StartMinute
    /\ flast = NoFeedCall
    /\ ticks_fed = 0
    /\ bucket_ticks = [sy \in FeedSymbols |-> [tf \in TimeframeNames |-> [start |-> 0, prices |-> <<>>]]]
    /\ sealed_times = [sy \in FeedSymbols |-> [tf \in TimeframeNames |-> <<>>]]
    /\ account_balance = DefaultBalance
    /\ account_equity = DefaultBalance
    /\ daily_loss = 0
    /\ rlast = NoRiskCall
    /\ candles_buffer = <<>>
    /\ last_signal_time = Nil
    /\ signals = <<>>
    /\ bar_tf = None
    /\ broker_orders = <<>>

InitCommon ==
    /\ InitButCandles
    /\ fm_candles = [sy \in FeedSymbols |-> <<>>]
    /\ stored_ever = [sy \in FeedSymbols |-> <<>>]

\* the manager with the factory-built strategies at hand and the mapping of the
\* one instrument quoted under both spellings registered
Init ==
    /\ InitCommon
    /\ ea = Factory
    /\ colon_to_pipe = (ColonX :> PipeX)
    /\ pipe_to_colon = (PipeX :> ColonX)

Next ==
    \/ \E n \in EANames : EAM_register_ea(n)
    \/ \E n \in EANames : \E h \in HookFaults(n) : EAM_unregister_ea(n, h)
    \/ \E n \in EANames : \E h \in HookFaults(n) : EAM_start_ea(n, h)
    \/ \E n \in EANames : \E h \in HookFaults(n) : EAM_stop_ea(n, h)
    \/ \E n \in EANames : EAM_pause_ea(n)
    \/ \E n \in EANames : EAM_resume_ea(n)
    \/ \E rs \in {{}, {FaultyHook}} : EAM_stop_all(rs)
    \/ \E limit \in {0, 2} : EAM_set_max_concurrent_eas(limit)
    \/ Initialize(<<"M", "2">>, MgrConfig(ColonX))
    \/ \E sy \in EventSymbols, rs \in HandlerFaults : EAM_on_tick(sy, rs)
    \/ \E sy \in EventSymbols, rs \in HandlerFaults : EAM_on_bar(sy, rs)
    \/ \E o \in MgrOrders, rs \in HandlerFaults : EAM_on_order_update(o, rs)

Spec == Init /\ [][Next]_vars

InitEA ==
    /\ InitCommon
    /\ ea = [n \in EANames |-> NewEA]
    /\ colon_to_pipe = <<>>
    /\ pipe_to_colon = <<>>

NextEA ==
    \/ \E c \in GateConfigs : Initialize(GateEA, c)
    \/ \E h \in BOOLEAN : EAD_start(h)
    \/ \E h \in BOOLEAN : EAD_stop(h)
    \/ EAD_pause
    \/ EAD_resume
    \/ \E h \in BOOLEAN : EAD_on_tick(h)
    \/ \E h \in BOOLEAN : EAD_on_bar(h)
    \/ \E o \in GateOrders, h \in BOOLEAN : EAD_on_order_update(o, h)
    \/ HourPasses
    \/ DayPasses

SpecEA == InitEA /\ [][NextEA]_vars

\* the order updates of two tickets delivered to one strategy in any order
NextTally ==
    \/ \E c \in GateConfigs : Initialize(GateEA, c)
    \/ \E h \in BOOLEAN : EAD_start(h)
    \/ \E h \in BOOLEAN : EAD_stop(h)
    \/ \E o \in GateOrders, h \in BOOLEAN : EAT_on_order_update(o, h)

SpecTally == InitEA /\ [][NextTally]_vars

InitExec ==
    /\ InitCommon
    /\ ea = [n \in EANames |-> NewEA]
    /\ colon_to_pipe = <<>>
    /\ pipe_to_colon = <<>>

NextExec ==
    \/ ES_set_broker
    \/ \E enabled \in BOOLEAN : ES_set_paper_trading(enabled)
    \/ \E sig \in ExecSignals, outcomes \in PlaceOutcomes : ES_execute_signal(sig, outcomes)
    \/ \E outcome \in BoolOutcomes : ES_close_position(1, outcome)
    \/ \E outcome \in BoolOutcomes : ES_modify_position(1, 90, 0, outcome)
    \/ MsPasses

SpecExec == InitExec /\ [][NextExec]_vars

InitTracker ==
    /\ InitCommon
    /\ ea = [n \in EANames |-> NewEA]
    /\ colon_to_pipe = <<>>
    /\ pipe_to_colon = <<>>

\* the ledger and the trailing stops of PositionTracker
NextTracker ==
    \/ \E o \in LedgerOrders : PT_add_position(o)
    \/ \E o \in UpdateOrders : PT_update_position(o)
    \/ \E t \in Tickets, p \in ClosePrices : PT_close_position(t, p)
    \/ \E t \in Tickets, pips \in TrailingPips, p \in TrailingPrices :
          PT_enable_trailing_stop(t, pips, p)
    \/ \E sy \in TrailingSymbols, p \in TrailingPrices : PT_update_trailing_stops(sy, p)

SpecTracker == InitTracker /\ [][NextTracker]_vars

\* the SL/TP watch of PositionTracker on ticks and bars
NextWatch ==
    \/ \E o \in WatchOrders : PT_add_position(o)
    \/ \E t \in WatchCloses, p \in ClosePrices : PT_close_position(t, p)
    \/ \E tick \in WatchTicks : PT_on_tick(tick)
    \/ \E bar \in WatchBars, sy \in {ColonX, ColonY} : PT_on_bar(bar, sy)

SpecWatch == InitTracker /\ [][NextWatch]_vars

\* the tracker with the mapping of the instrument quoted under both spellings
\* registered
InitSpellings ==
    /\ InitCommon
    /\ ea = [n \in EANames |-> NewEA]
    /\ colon_to_pipe = (ColonX :> PipeX)
    /\ pipe_to_colon = (PipeX :> ColonX)

NextSpellings ==
    \/ \E o \in WatchOrders : PT_add_position(o)
    \/ \E tick \in SpellingTicks : PT_on_tick(tick)
    \/ \E bar \in WatchBars, sy \in {ColonX, PipeX} : PT_on_bar(bar, sy)

SpecSpellings == InitSpellings /\ [][NextSpellings]_vars

InitFeed ==
    /\ InitCommon
    /\ ea = [n \in EANames |-> NewEA]
    /\ colon_to_pipe = <<>>
    /\ pipe_to_colon = <<>>

\* the feed: ticks arriving while the clock moves on
NextFeed ==
    \/ \E tick \in FeedTicks : FM_update_tick(tick)
    \/ MinutePasses

SpecFeed == InitFeed /\ [][NextFeed]_vars

\* the feed over long gaps: ticks arriving minutes, hours or days apart
NextBuckets ==
    \E tick \in ArrivalTicks : \E elapsed \in Elapsed : FM_tick_arrives(tick, elapsed)

SpecBuckets == InitFeed /\ [][NextBuckets]_vars

\* the store of FeedManager with lists of candles up to the cap in it
InitRetention ==
    /\ InitButCandles
    /\ ea = [n \in EANames |-> NewEA]
    /\ colon_to_pipe = <<>>
    /\ pipe_to_colon = <<>>
    /\ fm_candles \in [FeedSymbols -> { Preloaded(n) : n \in PreloadLengths }]
    /\ stored_ever = fm_candles

NextRetention ==
    \E sy \in FeedSymbols : \E candle \in NextCandles(fm_candles[sy]) : FM_update_candle(sy, candle)

SpecRetention == InitRetention /\ [][NextRetention]_vars

InitRisk ==
    /\ InitCommon
    /\ ea = [n \in EANames |-> NewEA]
    /\ colon_to_pipe = <<>>
    /\ pipe_to_colon = <<>>

NextRisk ==
    \/ \E a \in Accounts : RM_update_account_balance(a[1], a[2])
    \/ \E profit \in Profits : RM_update_daily_loss(profit)
    \/ RM_reset_daily_loss
    \/ \E risk_percent \in RiskPercents : RM_can_open_position("M", risk_percent, 1)

SpecRisk == InitRisk /\ [][NextRisk]_vars

\* the breakout strategy alone, started with or without candles in the feed
InitBreakout ==
    /\ InitButCandles
    /\ ea = [n \in EANames |-> NewEA]
    /\ colon_to_pipe = <<>>
    /\ pipe_to_colon = <<>>
    /\ fm_candles \in [FeedSymbols -> {<<>>, <<OHLCData(0, 100, 102, 100, 101),
                                              OHLCData(1, 100, 101, 100, 100)>>}]
    /\ stored_ever = fm_candles

NextBreakout ==
    \/ BB_on_start
    \/ \E bar \in BreakoutBars : \E passes \in BOOLEAN : BB_handle_bar(bar, passes)

SpecBreakout == InitBreakout /\ [][NextBreakout]_vars

\* the strategy driven directly through a trading day and the night after it:
\* positions are opened and closed on day 0 only, so that a loss standing on a
\* later day was made on an earlier one
NextCutoff ==
    \/ \E c \in GateConfigs : Initialize(GateEA, c)
    \/ \E h \in BOOLEAN : EAD_start(h)
    \/ \E h \in BOOLEAN : EAD_stop(h)
    \/ EAD_resume
    \/ \E h \in BOOLEAN : EAD_on_tick(h)
    \/ \E h \in BOOLEAN : EAD_on_bar(h)
    \/ now.day = 0 /\ \E o \in GateOrders : EAD_on_order_update(o, FALSE)
    \/ HourPasses
    \/ DayPasses

SpecCutoff == InitEA /\ [][NextCutoff]_vars

\* the SL/TP watch in paper and in live mode.  Quotes keep arriving; the
\* tracker's close_position has no caller in the program, so a call of it is an
\* outside event nothing obliges to happen.
NextLiquidate ==
    \/ ES_set_broker
    \/ \E b \in BOOLEAN : ES_set_paper_trading(b)
    \/ \E o \in LiquidateOrders : PT_add_position(o)
    \/ \E t \in Tickets, p \in ClosePrices : PT_close_position(t, p)
    \/ \E tick \in LiquidateTicks, out \in BoolOutcomes : LQ_on_tick(tick, out)
    \/ \E bar \in LiquidateBars, out \in BoolOutcomes : LQ_on_bar(bar, ColonX, out)

SpecLiquidate ==
    /\ InitTracker
    /\ [][NextLiquidate]_vars
    /\ WF_vars(\E tick \in LiquidateTicks, out \in BoolOutcomes : LQ_on_tick(tick, out))
    /\ WF_vars(\E bar \in LiquidateBars, out \in BoolOutcomes : LQ_on_bar(bar, ColonX, out))

\* trailing stops pushed to the broker: orders placed at the dummy broker and
\* tracked under the broker's ticket, trailing enabled, quotes handled
NextPush ==
    \/ ES_set_broker
    \/ \E b \in BOOLEAN : ES_set_paper_trading(b)
    \/ \E o \in LedgerOrders : DB_place_order(o)
    \/ \E o \in LedgerOrders : PT_add_position(o)
    \/ \E t \in Tickets, pips \in TrailingPips, p \in TrailingPrices :
          PT_enable_trailing_stop(t, pips, p)
    \/ \E p \in TrailingPrices : MA_handle_tick(ColonX, p)

SpecPush == InitTracker /\ [][NextPush]_vars

\* the manager with the candle builder wired to it: candles of every timeframe
\* close and are published
NextBars ==
    \/ \E n \in EANames : EAM_register_ea(n)
    \/ \E n \in EANames : \E h \in HookFaults(n) : EAM_start_ea(n, h)
    \/ \E n \in EANames : \E h \in HookFaults(n) : EAM_stop_ea(n, h)
    \/ \E sy \in EventSymbols, tf \in TimeframeNames, raisers \in HandlerFaults :
          CB_emit_candle_close(sy, tf, raisers)

SpecBars == Init /\ [][NextBars]_vars

\* two strategies configured on the same symbol, and the updates of orders
\* that carry the name of one of them in the comment
SharedFactory == [n \in EANames |->
                    IF n \in {<<"M">>, <<"B">>} THEN EA_initialize(NewEA, MgrConfig(ColonX))
                    ELSE NewEA]

TaggedOrders ==
    { AnOrder(t, st, ColonX, CommentOf(<<"B">>), "buy", IF st = "closed" THEN Some(110) ELSE Nil) :
        t \in {1}, st \in {"active", "closed"} }

InitShared ==
    /\ InitCommon
    /\ ea = SharedFactory
    /\ colon_to_pipe = (ColonX :> PipeX)
    /\ pipe_to_colon = (PipeX :> ColonX)

NextShared ==
    \/ \E n \in EANames : EAM_register_ea(n)
    \/ \E n \in EANames : \E h \in HookFaults(n) : EAM_start_ea(n, h)
    \/ \E n \in EANames : \E h \in HookFaults(n) : EAM_stop_ea(n, h)
    \/ \E o \in TaggedOrders :
          /\ o.status = "closed" => \A n \in EANames : ea[n].total_trades < MaxTrades
          /\ EAM_on_order_update(o, {})

SpecShared == InitShared /\ [][NextShared]_vars

\* the symbol normalizer alone: mappings registered and registered again
NextNormalizer ==
    \/ \E c \in {ColonX, ColonY}, pf \in {PipeX, PipeY} : SN_register_mapping(c, pf)
    \/ \E a \in Spellings, b \in Spellings : SN_match(a, b)

SpecNormalizer == InitEA /\ [][NextNormalizer]_vars

\* ================================================================== claims
RoutingOps == {"tick", "bar", "order"}

\* how many times name n occurs in list l
RECURSIVE Occurrences(_, _)
Occurrences(l, n) ==
    IF l = <<>> THEN 0
    ELSE (IF Head(l) = n THEN 1 ELSE 0) + Occurrences(Tail(l), n)

\* strategy n is registered, in the running set, and the event recorded in
\* last is one the manager routes to it
RunningAndRouted(n) ==
    /\ n \in eas
    /\ InList(n, running_eas)
    /\ IF last.op = "order"
       THEN \/ StartsWith(last.name, n)
            \/ (ea[n].config # Nil /\ Get(ea[n].config).symbol = last.symbol)
       ELSE /\ ea[n].config # Nil
            /\ match(colon_to_pipe, pipe_to_colon, Get(ea[n].config).symbol, last.symbol)

\* C1: a start_ea call made while the running set already holds at least
\* max_concurrent_eas names returns False and leaves the running set as it was,
\* whatever was registered, started or stopped before.
C1_StartRejectedAtCap ==
    [][ (last'.op = "start" /\ Len(running_eas) >= max_concurrent_eas)
          => (last'.result = FALSE /\ running_eas' = running_eas) ]_vars

\* a registered, not yet running strategy was refused by start_ea with the
\* running set exactly at the cap
C1_Witness ==
    /\ last.op = "start"
    /\ last.result = FALSE
    /\ last.name \in eas
    /\ ~InList(last.name, running_eas)
    /\ Len(running_eas) = max_concurrent_eas

\* C2: when a strategy's handler raises during a fan-out, that exception does
\* not leave the routing call, and every other registered strategy of the
\* running set that the event is routed to has had the event delivered.
C2_HandlerExceptionIsolated ==
    (last.op \in RoutingOps /\ last.raised # {})
      => /\ last.escaped # "handler"
         /\ \A n \in EANames : (n \notin last.raised /\ RunningAndRouted(n))
                                 => InList(n, last.delivered)

\* C3: when the tick, bar or order-update handler of a running, non-paused
\* strategy raises, the strategy is paused after the event (is_paused, status
\* "paused") and ea_error has been emitted for it.
C3_HandlerErrorPauses ==
    [][ \A n \in EANames :
          (last'.op \in RoutingOps /\ n \in last'.raised
             /\ ea[n].is_running /\ ~ea[n].is_paused)
            => (ea'[n].is_paused /\ ea'[n].status = "paused" /\ n \in last'.ea_errors) ]_vars

\* C4: a tick or bar is delivered exactly once to each registered strategy of
\* the running set whose configured symbol matches the event's symbol and to
\* no other strategy; after a successful stop_ea(name) the name is out of the
\* running set, hence receives nothing until start_ea puts it back.
C4_DeliveredExactlyToRunningMatching ==
    /\ last.op \in {"tick", "bar"}
         => \A n \in EANames :
              Occurrences(last.delivered, n) = IF RunningAndRouted(n) THEN 1 ELSE 0
    /\ (last.op = "stop" /\ last.result) => ~InList(last.name, running_eas)

\* C5: stop() on an initialized strategy, whatever its state (stopped,
\* running, paused or error), leaves status "stopped", is_running false and
\* is_paused false.
C5_StopAlwaysStopped ==
    (last.op = "ea_stop" /\ ea[GateEA].config # Nil)
      => /\ ea[GateEA].status = "stopped"
         /\ ~ea[GateEA].is_running
         /\ ~ea[GateEA].is_paused

\* the daily loss of strategy object e in cents (zero when the day is in profit)
DailyLoss(e) == IF e.daily_profit < 0 THEN -e.daily_profit ELSE 0

\* the conditions C6 names, on strategy object e at clock reading c.  One
\* percent of the reference equity is ReferenceEquity cents.
C6_Conditions(e, c) ==
    /\ e.is_running
    /\ ~e.is_paused
    /\ e.config # Nil
    /\ Get(e.config).enable_time_filter
         => (Get(e.config).trading_start_hour <= c.hour /\ c.hour < Get(e.config).trading_end_hour)
    /\ DailyLoss(e) < Get(e.config).max_daily_loss * ReferenceEquity
    /\ Len(e.open_tickets) < Get(e.config).max_concurrent_positions

\* C6: handle_tick / handle_bar is entered only from a state in which the
\* strategy is running, not paused, configured, inside the trading hours when
\* the filter is on, below the daily loss limit (percent of the 10,000
\* reference) and below max_concurrent_positions open tickets.
C6_HandlerOnlyWhenGateOpen ==
    [][ (last'.op \in {"ea_on_tick", "ea_on_bar"} /\ GateEA \in last'.invoked)
          => C6_Conditions(ea[GateEA], now) ]_vars

\* the handler was entered with the time filter on, a loss on the day and an
\* open ticket
C6_Witness ==
    /\ last.op \in {"ea_on_tick", "ea_on_bar"}
    /\ GateEA \in last.invoked
    /\ Get(ea[GateEA].config).enable_time_filter
    /\ ea[GateEA].daily_profit < 0
    /\ Len(ea[GateEA].open_tickets) = 1

\* the fields of a signal that fail execute_signal's validation
FailingFields(signal) ==
    (IF signal.signal_type \notin SignalTypes THEN {"signal type"} ELSE {})
    \cup (IF signal.symbol = "" THEN {"symbol"} ELSE {})
    \cup (IF signal.volume <= 0 THEN {"volume"} ELSE {})
    \cup (IF signal.price <= 0 THEN {"price"} ELSE {})

\* the field a rejection reason names, "" when it names none
FieldNamed(reason) ==
    IF reason = "Invalid signal type" THEN "signal type"
    ELSE IF reason = "No symbol specified" THEN "symbol"
    ELSE IF reason = "Invalid volume" THEN "volume"
    ELSE IF reason = "Invalid price" THEN "price"
    ELSE ""

\* the last call was execute_signal on a signal that fails validation
InvalidSignalExecuted == xlast.op = "execute_signal" /\ FailingFields(xlast.arg) # {}

\* no order came of the last call: none returned, none built, none published,
\* the broker not called, and exactly one rejection emitted
RejectedOnce ==
    /\ xlast.result = Nil
    /\ xlast.constructed = <<>>
    /\ xlast.placed = <<>>
    /\ xlast.calls = <<>>
    /\ Len(xlast.rejected) = 1

\* the one rejection names a failing field, the volume when a zero volume is
\* the signal's only defect
NamesFailingField ==
    /\ FieldNamed(xlast.rejected[1]) \in FailingFields(xlast.arg)
    /\ (xlast.arg.volume = 0 /\ FailingFields(xlast.arg) = {"volume"})
         => FieldNamed(xlast.rejected[1]) = "volume"

\* C7 as stated: in either execution mode, execute_signal on a signal that
\* fails validation returns no order, builds none, publishes none, calls no
\* broker and emits exactly one rejection, whose reason names the failing field.
C7_Original == InvalidSignalExecuted => (RejectedOnce /\ NamesFailingField)

\* C7 amended: the same, the reason naming the failing field when a broker is
\* attached; with no broker attached the one rejection is "No broker connection".
C7_InvalidSignalRejected ==
    InvalidSignalExecuted
      => /\ RejectedOnce
         /\ IF xlast.had_broker THEN NamesFailingField
            ELSE xlast.rejected = <<"No broker connection">>

\* a volume=0 signal, otherwise valid, was rejected in live mode with a broker
C7_Witness ==
    /\ xlast.op = "execute_signal"
    /\ xlast.had_broker
    /\ ~xlast.paper
    /\ xlast.arg.volume = 0
    /\ FailingFields(xlast.arg) = {"volume"}
    /\ xlast.rejected = <<"Invalid volume">>

\* the last call was execute_signal in paper mode on a valid signal
ValidSignalOnPaper ==
    xlast.op = "execute_signal" /\ xlast.paper /\ FailingFields(xlast.arg) = {}

\* the last call returned an active order and published exactly that order once
ActiveOrderPlacedOnce ==
    /\ xlast.result # Nil
    /\ Get(xlast.result).status = "active"
    /\ xlast.placed = <<Get(xlast.result)>>
    /\ xlast.rejected = <<>>

\* C8 as stated: in paper mode execute_signal on any valid signal returns an
\* active order and emits order_placed exactly once for it.
C8_Original == ValidSignalOnPaper => ActiveOrderPlacedOnce

\* C8 amended: so it does when a broker is attached; with none attached (the
\* state after construction) it returns None, publishes no order and emits
\* the rejection "No broker connection".
C8_PaperOrderActive ==
    ValidSignalOnPaper
      => IF xlast.had_broker THEN ActiveOrderPlacedOnce
         ELSE /\ xlast.result = Nil
              /\ xlast.placed = <<>>
              /\ xlast.rejected = <<"No broker connection">>

\* a valid signal was executed on paper with a broker attached
C8_Witness == ValidSignalOnPaper /\ xlast.had_broker /\ xlast.result # Nil

\* C9: a call made while paper_trading is enabled (execute_signal,
\* close_position or modify_position) makes no call of the broker's
\* place_order, close_order or modify_order.
C9_NoBrokerCallOnPaper == xlast.paper => xlast.calls = <<>>

\* close_position and modify_position succeeded on paper with a broker attached
C9_Witness ==
    /\ xlast.op \in {"close_position", "modify_position"}
    /\ xlast.paper
    /\ xlast.had_broker
    /\ xlast.result = Some(TRUE)

\* the attempts on which the broker's place_order returned an order
Successes(outcomes) == { k \in 1..Len(outcomes) : outcomes[k] = "order" }

\* the first of them
FirstSuccess(outcomes) == CHOOSE k \in Successes(outcomes) : \A j \in Successes(outcomes) : k <= j

\* C10: in live mode execute_signal on a valid signal calls place_order up to
\* the first attempt that returns an order and at most 3 times, publishes that
\* order once without a rejection, and emits a rejection and returns None only
\* when all 3 attempts failed (returned nothing or raised); never both
\* order_placed and a rejection.
C10_LiveRetry ==
    (xlast.op = "execute_signal" /\ ~xlast.paper /\ xlast.had_broker
        /\ FailingFields(xlast.arg) = {})
      => /\ Len(xlast.calls) <= 3
         /\ \A i \in 1..Len(xlast.calls) : xlast.calls[i] = "place_order"
         /\ IF Successes(xlast.outcomes) # {}
            THEN /\ Len(xlast.calls) = FirstSuccess(xlast.outcomes)
                 /\ xlast.result # Nil
                 /\ xlast.placed = <<Get(xlast.result)>>
                 /\ xlast.rejected = <<>>
            ELSE /\ Len(xlast.calls) = 3
                 /\ xlast.result = Nil
                 /\ xlast.placed = <<>>
                 /\ Len(xlast.rejected) = 1

\* the third attempt succeeded after one that raised and one that returned nothing
C10_Witness ==
    /\ xlast.op = "execute_signal"
    /\ ~xlast.paper
    /\ xlast.outcomes = <<"raise", "none", "order">>
    /\ Len(xlast.calls) = 3
    /\ xlast.result # Nil

\* C11: no exception raised by the broker inside place_order, close_order or
\* modify_order leaves execute_signal, close_position or modify_position: the
\* call returns, with False when the close_order / modify_order call raised and
\* with None when every place_order attempt raised.
BrokerRaised == \E i \in 1..Len(xlast.calls) : xlast.outcomes[i] = "raise"

AllAttemptsRaised ==
    /\ Len(xlast.calls) = MaxRetries
    /\ \A i \in 1..MaxRetries : xlast.outcomes[i] = "raise"

C11_BrokerExceptionContained ==
    /\ ~xlast.escaped
    /\ (xlast.op \in {"close_position", "modify_position"} /\ BrokerRaised)
          => xlast.result = Some(FALSE)
    /\ (xlast.op = "execute_signal" /\ AllAttemptsRaised)
          => (xlast.result = Nil /\ xlast.placed = <<>>)

C11_Witness ==
    /\ xlast.op = "modify_position"
    /\ xlast.calls = <<"modify_order">>
    /\ BrokerRaised
    /\ xlast.result = Some(FALSE)

\* C12: a second close_position on the same ticket changes nothing: the open
\* map, the closed history, the trailing-stop records and get_statistics()
\* are as before, and no close event is emitted.
SecondClose ==
    /\ tlast.op = "close_position"
    /\ tlast'.op = "close_position"
    /\ tlast'.arg[1] = tlast.arg[1]

C12_SecondCloseIsNoOp ==
    [][SecondClose =>
         /\ open_positions' = open_positions
         /\ closed_positions' = closed_positions
         /\ trailing_stops' = trailing_stops
         /\ get_statistics(closed_positions') = get_statistics(closed_positions)
         /\ tlast'.events = <<>>]_vars

C12_Witness ==
    /\ tlast.op = "close_position"
    /\ tlast.events = <<>>
    /\ tlast.arg[1] \in TicketsOf(closed_positions)
    /\ tlast.arg[1] \notin TicketsOf(open_positions)
    /\ get_statistics(closed_positions).winning_trades > 0

\* C13: a ticket goes through at most one open-to-closed session: a ticket in
\* the closed history is never in the open-position map again, and it is in
\* the closed history at most once.
TimesClosed(ticket) ==
    Cardinality({ i \in 1..Len(closed_positions) : closed_positions[i].ticket = ticket })

C13_OneSessionPerTicket ==
    /\ TicketsOf(closed_positions) \cap TicketsOf(open_positions) = {}
    /\ \A t \in Tickets : TimesClosed(t) <= 1

\* C14: once the tick path has requested a close for a ticket, the bar path
\* requests no close for that ticket.
C14_BarPathSkipsTickClosed ==
    [][tlast'.op = "on_bar" => Requested(tlast'.requests) \cap tick_requested = {}]_vars

\* C15: on_tick requests a close for an open position on the quote's symbol
\* exactly when the quote's bid (long) or ask (short) has reached a set
\* stop-loss or take-profit, once, and requests none otherwise.
TickHit(o, tick) ==
    LET price == IF is_buy(o) THEN tick.bid ELSE tick.ask
    IN \/ o.sl > 0 /\ (IF is_buy(o) THEN price <= o.sl ELSE price >= o.sl)
       \/ o.tp > 0 /\ (IF is_buy(o) THEN price >= o.tp ELSE price <= o.tp)

RequestsFor(ticket) == SelectSeq(tlast.requests, LAMBDA r : r[1] = ticket)

C15_TickRequestsExactlyOnHit ==
    tlast.op = "on_tick" =>
        /\ \A i \in 1..Len(open_positions) :
              LET o == open_positions[i]
              IN Len(RequestsFor(o.ticket)) =
                    IF o.symbol = tlast.arg.name /\ TickHit(o, tlast.arg) THEN 1 ELSE 0
        /\ Requested(tlast.requests) \subseteq TicketsOf(open_positions)

\* C16: on_bar requests a close with reason SL_HIT_BAR for an open long when
\* low <= sl and for an open short when high >= sl, with reason TP_HIT_BAR for
\* a long when high >= tp and for a short when low <= tp (a level of 0 is no
\* level; the stop-loss goes first when both are reached), at most one request
\* per position per bar, and none for a position on another symbol.
SlHitBar(o, bar) == o.sl > 0 /\ (IF is_buy(o) THEN bar.low <= o.sl ELSE bar.high >= o.sl)

TpHitBar(o, bar) == o.tp > 0 /\ (IF is_buy(o) THEN bar.high >= o.tp ELSE bar.low <= o.tp)

C16_BarRequests ==
    tlast.op = "on_bar" =>
        /\ \A i \in 1..Len(open_positions) :
              LET o == open_positions[i]
                  bar == tlast.arg[1]
                  rs == RequestsFor(o.ticket)
              IN IF o.symbol # tlast.arg[2] THEN rs = <<>>
                 ELSE /\ Len(rs) <= 1
                      /\ SlHitBar(o, bar) => rs = << <<o.ticket, "SL_HIT_BAR">> >>
                      /\ (TpHitBar(o, bar) /\ ~SlHitBar(o, bar))
                            => rs = << <<o.ticket, "TP_HIT_BAR">> >>
                      /\ (~TpHitBar(o, bar) /\ ~SlHitBar(o, bar)) => rs = <<>>
        /\ Requested(tlast.requests) \subseteq TicketsOf(open_positions)

\* the scenario: a long with sl = 98, a candle with low = 97 and high = 101, and a
\* position of another symbol that the candle leaves alone
C16_Witness ==
    /\ tlast.op = "on_bar"
    /\ tlast.arg[1].low = 97
    /\ tlast.arg[1].high = 101
    /\ \E i \in 1..Len(open_positions) :
          /\ is_buy(open_positions[i])
          /\ open_positions[i].sl = 98
          /\ RequestsFor(open_positions[i].ticket)
               = << <<open_positions[i].ticket, "SL_HIT_BAR">> >>
    /\ \E i \in 1..Len(open_positions) :
          /\ open_positions[i].symbol # tlast.arg[2]
          /\ RequestsFor(open_positions[i].ticket) = <<>>

\* C17: the stop-loss values published for a position with a trailing stop
\* never retreat: each is >= the one published before it for a long, <= for
\* a short.
C17_TrailingStopNeverRetreats ==
    [][\A i \in 1..Len(tlast'.updates) :
          LET ticket == tlast'.updates[i][1]
              new_sl == tlast'.updates[i][2]
          IN applied_sl[ticket] # Nil =>
                IF is_buy(ByTicket(open_positions, ticket))
                THEN new_sl >= Get(applied_sl[ticket])
                ELSE new_sl <= Get(applied_sl[ticket])]_vars

\* C18: every ticket holding a trailing-stop record is in the open-position map.
C18_TrailingOnlyForOpen == TicketsOf(trailing_stops) \subseteq TicketsOf(open_positions)

\* a position was closed while trailing stops were in use: its record is gone,
\* the record of the other position is still there
C18_Witness ==
    /\ tlast.op = "close_position"
    /\ tlast.events # <<>>
    /\ tlast.arg[1] \notin TicketsOf(trailing_stops)
    /\ trailing_stops # <<>>

\* the positions of the events of one signal in the record of the last feed call
EventsOf(signal) == { i \in 1..Len(flast.events) : flast.events[i].signal = signal }

\* C19: for one symbol, the candle-close event of a bucket is published before
\* the first tick of the next bucket is delivered to the tick subscribers: in
\* the events of one update_tick call every candle_updated comes before the
\* tick_received of the tick that closed the candle
C19_CloseBeforeNextBucketTick ==
    \A i \in EventsOf("candle_updated") : \A j \in EventsOf("tick_received") : i < j

RECURSIVE SeqMax(_)
SeqMax(prices) ==
    IF Len(prices) = 1 THEN prices[1] ELSE Max(prices[1], SeqMax(Tail(prices)))

RECURSIVE SeqMin(_)
SeqMin(prices) ==
    IF Len(prices) = 1 THEN prices[1]
    ELSE LET m == SeqMin(Tail(prices)) IN IF prices[1] < m THEN prices[1] ELSE m

\* the candle is the open, high, low and close of the ticks
IsOHLCOf(candle, prices) ==
    /\ prices # <<>>
    /\ candle.open = prices[1]
    /\ candle.high = SeqMax(prices)
    /\ candle.low = SeqMin(prices)
    /\ candle.close = prices[Len(prices)]

\* C20: the candle sealed for a bucket has open = first, high = maximum,
\* low = minimum and close = last price of the ticks of the bucket, and after
\* every tick the candle being built is the same summary of the ticks so far
\* with low <= min(open, close) and high >= max(open, close)
C20_CandleIsOHLCOfBucket ==
    /\ \A i \in EventsOf("candle_updated") :
          IsOHLCOf(flast.events[i].candle, flast.events[i].ticks)
    /\ \A sy \in FeedSymbols : \A tf \in TimeframeNames :
          current_candles[sy][tf] # Nil =>
             LET candle == Get(current_candles[sy][tf])
             IN /\ IsOHLCOf(candle, bucket_ticks[sy][tf].prices)
                /\ candle.low <= candle.open /\ candle.low <= candle.close
                /\ candle.high >= candle.open /\ candle.high >= candle.close

\* the M5 bucket with ticks at 100, 101, 99, 102 is sealed as O=100 H=102 L=99 C=102
C20_Witness ==
    \E i \in EventsOf("candle_updated") :
       /\ flast.events[i].tf = "M5"
       /\ flast.events[i].ticks = <<100, 101, 99, 102>>
       /\ flast.events[i].candle.open = 100
       /\ flast.events[i].candle.high = 102
       /\ flast.events[i].candle.low = 99
       /\ flast.events[i].candle.close = 102

\* C21: the candles closed for one symbol and timeframe have strictly
\* increasing bucket starts, each a whole number of timeframe durations after
\* midnight, so no bucket is closed twice and no two closed buckets overlap
C21_SealedBucketsIncreaseOnBoundaries ==
    \A sy \in FeedSymbols : \A i \in 1..Len(Timeframes) :
       LET starts == sealed_times[sy][Timeframes[i][1]]
           minutes == Timeframes[i][2]
       IN /\ \A k \in 1..Len(starts) : (starts[k] % 1440) % minutes = 0
          /\ \A k \in 1..(Len(starts) - 1) : starts[k] + minutes <= starts[k + 1]

\* two candles closed for M5 a bucket apart and one for D1
C21_Witness ==
    \E sy \in FeedSymbols :
       /\ Len(sealed_times[sy]["M5"]) = 2
       /\ sealed_times[sy]["M5"][2] = sealed_times[sy]["M5"][1] + 5
       /\ Len(sealed_times[sy]["D1"]) = 1

\* the places of a candle in the buffer get_candles returns for the symbol
PlacesIn(sy, candle) ==
    LET retained == get_candles(fm_candles[sy], DefaultCount)
    IN { i \in 1..Len(retained) : retained[i] = candle }

\* C22: once ticks have been taken in for a symbol and timeframe, exactly one
\* candle of the buffer get_candles returns is the candle still being built
C22_OneCurrentCandleRetained ==
    \A sy \in FeedSymbols : \A tf \in TimeframeNames :
       current_candles[sy][tf] # Nil =>
          Cardinality(PlacesIn(sy, Get(current_candles[sy][tf]))) = 1

\* the call just made was update_tick with a last price of zero or less
NonPositiveTickTaken ==
    /\ ticks_fed' = ticks_fed + 1
    /\ flast'.op = "update_tick"
    /\ flast'.tick.last <= 0

\* C23: a tick whose last price is zero or negative is dropped by the candle
\* aggregation: it opens, updates and closes no candle of any timeframe
C23_NonPositiveTickDropped ==
    [][NonPositiveTickTaken =>
          /\ current_candles' = current_candles
          /\ last_candle_time' = last_candle_time
          /\ \A i \in 1..Len(flast'.events) : flast'.events[i].signal # "candle_updated"]_vars

\* the n most recent of a list of candles, oldest first
MostRecent(candles, n) == SubSeq(candles, Len(candles) - n + 1, Len(candles))

C25_GetCandlesReturnsMostRecent ==
    \A sy \in FeedSymbols : \A count \in Counts :
       LET n == Len(fm_candles[sy])
       IN get_candles(fm_candles[sy], count)
            = MostRecent(fm_candles[sy], IF count < n THEN count ELSE n)

\* one of the three conditions that forbid a new position holds
MustRefuse(risk_percent) ==
    \/ daily_loss < 0 /\ (-daily_loss) * 100 >= MaxDailyLossPercent * account_balance
    \/ risk_percent > MaxRiskPerTrade
    \/ account_equity * 2 <= account_balance

\* C26: for a balance above 0, can_open_position answers (False, reason) when
\* the day's loss is at least max_daily_loss percent of the balance, when
\* risk_percent is above max_risk_per_trade or when the equity is at most half
\* the balance, and (True, 'OK') only when none of the three holds
C26_CanOpenPosition ==
    (rlast.op = "can_open_position" /\ account_balance > 0) =>
       /\ MustRefuse(rlast.arg[2]) => rlast.result[1] = FALSE /\ rlast.result[2] # "OK"
       /\ ~MustRefuse(rlast.arg[2]) => rlast.result = <<TRUE, "OK">>

\* a request refused with the day's loss exactly at the limit and nothing else wrong
C26_Witness ==
    /\ rlast.op = "can_open_position"
    /\ daily_loss * 100 = -MaxDailyLossPercent * account_balance
    /\ rlast.arg[2] <= MaxRiskPerTrade
    /\ account_equity * 2 > account_balance
    /\ rlast.result[1] = FALSE

\* start() is called on an initialized, stopped strategy whose stored start
\* date is before today
StaleStart ==
    /\ last'.op = "ea_start"
    /\ ea[GateEA].config # Nil
    /\ ~ea[GateEA].is_running
    /\ ea[GateEA].started_day # Nil
    /\ Get(ea[GateEA].started_day) < now.day

\* C27: start() on an initialized, stopped strategy whose stored start date is
\* earlier than today sets trades_today and daily_profit to zero
C27_StartResetsStaleCounters ==
    [][StaleStart => ea'[GateEA].trades_today = 0 /\ ea'[GateEA].daily_profit = 0]_vars

\* C29: each ticket adds at most once to the strategy's total_trades, whatever
\* the number and order of the 'active' and 'closed' updates delivered for it,
\* and state.open_positions is the size of the open-ticket set
C29_TicketCountedOnce ==
    /\ \A t \in DOMAIN counted : counted[t] <= 1
    /\ ea[GateEA].open_positions = Len(ea[GateEA].open_tickets)

\* C28: register_ea refuses a name that is already registered and leaves the
\* registry as it was, and once unregister_ea(name) has returned True the name
\* is neither registered nor in the running set
C28_RegisterUnregister ==
    [][/\ (last'.op = "register" /\ last'.name \in eas) =>
             (last'.result = FALSE /\ eas' = eas)
       /\ (last'.op = "unregister" /\ last'.result = TRUE) =>
             (last'.name \notin eas' /\ ~InList(last'.name, running_eas'))]_vars

\* the symbol of the position and the symbol of the event are the same
\* instrument under the registered mappings
SameInstrument(o, name) == match(colon_to_pipe, pipe_to_colon, o.symbol, name)

\* C30: on_tick and on_bar check the stop-loss and take-profit of every open
\* position whose symbol is equivalent to the symbol of the event, the position
\* opened as 'exchange:name' and the quote named 'exchange|token' included
C30_EquivalentSpellingsChecked ==
    /\ (tlast.op = "on_tick" /\ tlast.arg.last # 0) =>
          \A i \in 1..Len(open_positions) :
             SameInstrument(open_positions[i], tlast.arg.name) =>
                RequestsFor(open_positions[i].ticket)
                   = check_sl_tp(open_positions[i], tlast.arg.last)
    /\ tlast.op = "on_bar" =>
          \A i \in 1..Len(open_positions) :
             SameInstrument(open_positions[i], tlast.arg[2]) =>
                RequestsFor(open_positions[i].ticket)
                   = check_sl_tp_bar(open_positions[i], tlast.arg[1])

\* C31: between one start and the next, the breakout strategy generates no two
\* signals for the same candle timestamp, whatever bars handle_bar is handed.
C31_OneSignalPerCandle ==
    \A i, j \in 1..Len(signals) : i # j => signals[i] # signals[j]

\* a breakout bar arrived under the timestamp already signalled and was held back
C31_Witness ==
    /\ Len(candles_buffer) >= 3
    /\ LET candle_0 == candles_buffer[Len(candles_buffer)]
           candle_1 == candles_buffer[Len(candles_buffer) - 1]
       IN /\ candle_0.timestamp = candle_1.timestamp
          /\ PatternDetected(candle_0, candle_1)
          /\ signals = <<candle_0.timestamp>>

\* C32: in every reachable state of the manager each name of the running list
\* is a registered strategy whose is_running flag is set, and no name is listed
\* twice.
C32_RunningListSound ==
    /\ \A i \in 1..Len(running_eas) :
          running_eas[i] \in eas /\ ea[running_eas[i]].is_running
    /\ \A i, j \in 1..Len(running_eas) : i # j => running_eas[i] # running_eas[j]

\* C33: the number of running strategies never exceeds max_concurrent_eas,
\* also after set_max_concurrent_eas has changed the limit.
C33_RunningWithinCap == Len(running_eas) <= max_concurrent_eas

\* the loss of the trading day (day 0) stands at the cutoff on a later day, and
\* nothing but the cutoff can keep the gate shut
StaleCutoff(e) ==
    /\ now.day > 0
    /\ e.config # Nil
    /\ DailyLossReached(e.daily_profit, Get(e.config).max_daily_loss)
    /\ Get(e.config).enable_time_filter => InTradingHours(Get(e.config), now.hour)
    /\ ~PositionsFull(e)

\* the step resumes the paused strategy
Resumes == last'.op = "ea_resume" /\ ea[GateEA].is_running /\ ea[GateEA].is_paused

\* the step starts the strategy again, after a stop, on a later day than before
Restarts ==
    /\ last'.op = "ea_start"
    /\ ~ea[GateEA].is_running
    /\ ea[GateEA].started_day # Nil /\ Get(ea[GateEA].started_day) < now.day

\* C34: a strategy the daily-loss cutoff stopped trades again on a later day:
\* once it has been resumed, or stopped and started again, after the date rolled
\* over, the next tick and the next bar pass the trading gate and the per-day
\* loss is reset.
C34_TradesAgainNextDay ==
    [][ (StaleCutoff(ea[GateEA]) /\ (Resumes \/ Restarts))
        => /\ EA_on_tick(ea'[GateEA], now, FALSE).invoked
           /\ EA_on_bar(ea'[GateEA], now, FALSE).invoked
           /\ EA_on_bar(ea'[GateEA], now, FALSE).e.daily_profit = 0 ]_vars

\* C35: whenever on_tick or on_bar detects an SL/TP breach of an open position,
\* the position is eventually moved out of the open map into the closed
\* history, in paper and in live mode alike.
C35_BreachedPositionCloses ==
    \A t \in Tickets :
       (tlast.op \in {"on_tick", "on_bar"} /\ t \in Requested(tlast.requests))
          ~> (t \notin TicketsOf(open_positions))

\* C36: pushing a trailing-stop update to the broker (handle_tick calling
\* modify_position with the new stop-loss) leaves the take-profit of every
\* order of the broker as it was.
C36_PushKeepsTakeProfit ==
    [][ tlast'.op = "handle_tick"
        => \A i \in 1..Len(broker_orders) : broker_orders'[i].tp = broker_orders[i].tp ]_vars

\* two calls of execute_signal in a row, for different signals, each of which
\* built an order
TwoOrdersBuilt ==
    /\ xlast.op = "execute_signal" /\ xlast.constructed # <<>>
    /\ xlast'.op = "execute_signal" /\ xlast'.constructed # <<>>
    /\ xlast'.arg # xlast.arg

\* C37: the orders ExecutionService builds for distinct signals carry distinct
\* tickets, also within one clock millisecond, so that add_position tracks
\* both and drops neither as already tracked.
C37_DistinctTickets ==
    [][ TwoOrdersBuilt
        => /\ xlast'.constructed[1].ticket # xlast.constructed[1].ticket
           /\ Len(TrackerAdd(TrackerAdd(<<>>, xlast.constructed[1]).open,
                             xlast'.constructed[1]).open) = 2 ]_vars

\* C38: handle_bar of a strategy is entered only with candles closed for the
\* timeframe the strategy is configured for.
C38_OwnTimeframeOnly ==
    (last.op = "bar" /\ bar_tf # None)
       => \A n \in last.invoked : Get(ea[n].config).timeframe = bar_tf

\* C39: an order is tracked and counted by one strategy at most: the update of
\* an order whose comment carries the name of one strategy changes neither the
\* open tickets nor open_positions nor total_trades of any other strategy,
\* also when both run on the same symbol.
C39_OrderTrackedByOwnerOnly ==
    [][ (last'.op = "order" /\ last'.name = CommentOf(<<"B">>))
        => \A n \in EANames \ {<<"B">>} :
              /\ ea'[n].open_tickets = ea[n].open_tickets
              /\ ea'[n].open_positions = ea[n].open_positions
              /\ ea'[n].total_trades = ea[n].total_trades ]_vars

\* C40: the symbol-identity relation is symmetric: after any sequence of
\* register_mapping calls, match(a, b) = match(b, a) for all spellings a, b.
C40_MatchSymmetric ==
    \A a \in Spellings, b \in Spellings :
       match(colon_to_pipe, pipe_to_colon, a, b) = match(colon_to_pipe, pipe_to_colon, b, a)

====
